---- MODULE Spec2Model ----
(***************************************************************************)
(* Model of the air-quality forecasting engine                              *)
(* (src/lib/ml/air-quality-predictor.ts): AirQualityPredictor and the part  *)
(* of AdvancedMLEngine that post-processes its forecasts.                   *)
(*                                                                          *)
(* JavaScript numbers are modelled as exact rationals <<n, d>> in lowest    *)
(* terms with d > 0; <<0, 0>> stands for null / undefined.  Strings the     *)
(* code inspects (the district) are sequences of one-character strings.     *)
(* The wall clock is counted in whole hours since 2025-01-01 00:00 local.   *)
(***************************************************************************)
EXTENDS Integers, Sequences, FiniteSets, TLC

VARIABLES
    now,             \* wall clock, Date.now(), in hours since the epoch
    historicalData,  \* argument of the running call: readings, newest first
    weatherData,     \* argument: current weather snapshot
    areaInfo,        \* argument: area metadata
    hoursAhead,      \* argument: requested number of hours
    pc,              \* position of generatePredictions
    hour,            \* loop variable of generatePredictions
    predictions,     \* local array of generatePredictions
    outcome,         \* how generatePredictions settled (value or error)
    modelVersion,    \* AirQualityPredictor.modelVersion
    clockMoved,      \* the clock advanced while the call was running
    callLog,         \* settled calls of generatePredictions, oldest first
    apc,             \* position of generateAdvancedPredictions
    includeAIInsights, \* argument of generateAdvancedPredictions (and API key set)
    aiResponse,      \* what the external completion call produced
    basePredictions, \* local of generateAdvancedPredictions
    aiEnhancedPredictions, \* local of generateAdvancedPredictions
    advOutcome,      \* how generateAdvancedPredictions settled
    rpc,             \* position of the POST handler of the generate route
    requestHours,    \* hoursAhead of the request body
    routePredictions, \* local "predictions" of the POST handler
    table,           \* rows of air_quality_predictions
    answer,          \* the response of the POST handler
    batch,           \* the POST handler of the batch route: position and locals
    retrainingJobs,  \* AutoRetrainingPipeline.retrainingJobs, in order of insertion
    isRetrainingEnabled,    \* AutoRetrainingPipeline.isRetrainingEnabled
    lastRegularRetraining,  \* retrainingSchedule.lastRegularRetraining, in hours
    jobId            \* what the last call of triggerRetraining returned, 0 for ""

vars == <<now, historicalData, weatherData, areaInfo, hoursAhead, pc, hour,
          predictions, outcome, modelVersion, clockMoved, callLog,
          apc, includeAIInsights, aiResponse, basePredictions,
          aiEnhancedPredictions, advOutcome,
          rpc, requestHours, routePredictions, table, answer, batch,
          retrainingJobs, isRetrainingEnabled, lastRegularRetraining, jobId>>

coreVars == <<historicalData, weatherData, areaInfo, hoursAhead, pc, hour,
              predictions, outcome, modelVersion, clockMoved, callLog>>

advVars == <<apc, includeAIInsights, aiResponse, basePredictions,
            aiEnhancedPredictions, advOutcome>>

routeVars == <<rpc, requestHours, routePredictions, table, answer, batch>>

pipelineVars == <<retrainingJobs, isRetrainingEnabled, lastRegularRetraining, jobId>>

----------------------------------------------------------------------------
(* Bounds of the model *)

MaxHours == 50      \* largest hours_ahead a call is given
MaxExtra == 2       \* readings supplied beyond the 24 the predictor needs
MaxCalls == 3       \* calls recorded in callLog
MaxTicks == 1       \* hours the clock may advance in one behaviour
MaxJobs == 2        \* retraining jobs created in one behaviour

----------------------------------------------------------------------------
(* Numbers *)

Abs(x) == IF x < 0 THEN -x ELSE x

RECURSIVE GCD(_, _)
GCD(a, b) == IF b = 0 THEN a ELSE GCD(b, a % b)

R(n, d) == LET g == GCD(Abs(n), d) IN <<n \div g, d \div g>>

NULL == <<0, 0>>

IsNull(v) == v[2] = 0

Num(n) == <<n, 1>>

RAdd(a, b) ==
    LET g == GCD(a[2], b[2])
    IN  R(a[1] * (b[2] \div g) + b[1] * (a[2] \div g), (a[2] \div g) * b[2])

RNeg(a) == <<-a[1], a[2]>>

RSub(a, b) == RAdd(a, RNeg(b))

RMul(a, b) ==
    LET g1 == GCD(Abs(a[1]), b[2])
        g2 == GCD(Abs(b[1]), a[2])
    IN  R((a[1] \div g1) * (b[1] \div g2), (a[2] \div g2) * (b[2] \div g1))

RLt(a, b) ==
    LET g == GCD(a[2], b[2])
    IN  a[1] * (b[2] \div g) < b[1] * (a[2] \div g)

RLe(a, b) == ~RLt(b, a)

RMax(a, b) == IF RLt(a, b) THEN b ELSE a

RMin(a, b) == IF RLt(b, a) THEN b ELSE a

\* Math.round: the nearest integer, a tie going up
MathRound(a) == Num((2 * a[1] + a[2]) \div (2 * a[2]))

\* v || d on a number: null, undefined and 0 are falsy
OrDefault(v, d) == IF IsNull(v) \/ v[1] = 0 THEN d ELSE v

----------------------------------------------------------------------------
(* Strings *)

UpperCase == <<"A","B","C","D","E","F","G","H","I","J","K","L","M",
               "N","O","P","Q","R","S","T","U","V","W","X","Y","Z">>

LowerCase == <<"a","b","c","d","e","f","g","h","i","j","k","l","m",
               "n","o","p","q","r","s","t","u","v","w","x","y","z">>

toLowerCase(s) ==
    [i \in 1..Len(s) |->
        IF \E k \in 1..26 : UpperCase[k] = s[i]
        THEN LowerCase[CHOOSE k \in 1..26 : UpperCase[k] = s[i]]
        ELSE s[i]]

includes(s, sub) ==
    \E i \in 1..(Len(s) - Len(sub) + 1) : SubSeq(s, i, i + Len(sub) - 1) = sub

NullStr == <<"null">>

----------------------------------------------------------------------------
(* Date: local time without daylight saving; 2025-01-01 is a Wednesday *)

DaysBeforeMonth == <<0, 31, 59, 90, 120, 151, 181, 212, 243, 273, 304, 334>>

getHours(t) == t % 24

getDay(t) == (3 + (t \div 24)) % 7

getMonth(t) ==
    LET doy == (t \div 24) % 365
    IN  Cardinality({m \in 1..12 : DaysBeforeMonth[m] <= doy}) - 1

\* hours since the epoch of day `dom` of month `m` (1-based) at hour `h`
At(m, dom, h) == (DaysBeforeMonth[m] + dom - 1) * 24 + h

----------------------------------------------------------------------------
(* AirQualityPredictor: helper methods *)

\* a mutant lets the whole array through
Array_slice_whole(arr, start, end) == arr

Array_slice(arr, start, end) ==
    SubSeq(arr, start + 1, IF end < Len(arr) THEN end ELSE Len(arr))

\* values.reduce((a, b) => a + b, 0) over values[lo..hi]
RECURSIVE SumRange(_, _, _)
SumRange(values, lo, hi) ==
    IF lo > hi THEN Num(0)
    ELSE IF lo = hi THEN values[lo]
    ELSE LET mid == (lo + hi) \div 2
         IN  RAdd(SumRange(values, lo, mid), SumRange(values, mid + 1, hi))

Sum(values) == SumRange(values, 1, Len(values))

NonNull(data, field) ==
    SelectSeq([i \in 1..Len(data) |-> data[i][field]], LAMBDA v : ~IsNull(v))

\* a mutant falls back to a typical reading when no value is present
calculateAverage_baseline(data, field) ==
    LET values == NonNull(data, field)
    IN  IF Len(values) > 0
        THEN RMul(Sum(values), R(1, Len(values)))
        ELSE Num(50)

calculateAverage(data, field) ==
    LET values == NonNull(data, field)
    IN  IF Len(values) > 0
        THEN RMul(Sum(values), R(1, Len(values)))
        ELSE Num(0)

\* a mutant takes the two ends of the window, or 0 when one is missing
calculateTrend_fixedPair(data, field) ==
    IF Len(data) < 2 THEN Num(0)
    ELSE IF IsNull(data[1][field]) \/ IsNull(data[Len(data)][field]) THEN Num(0)
    ELSE RSub(data[1][field], data[Len(data)][field])

calculateTrend(data, field) ==
    LET values == NonNull(data, field)
    IN  IF Len(data) < 2 THEN Num(0)
        ELSE IF Len(values) < 2 THEN Num(0)
        ELSE RSub(values[1], values[Len(values)])

\* a mutant ends the monsoon in August
getSeason_shortMonsoon(month) ==
    IF month >= 12 \/ month <= 2 THEN "winter"
    ELSE IF month >= 3 /\ month <= 5 THEN "summer"
    ELSE IF month >= 6 /\ month <= 8 THEN "monsoon"
    ELSE "post_monsoon"

getSeason(month) ==
    IF month >= 12 \/ month <= 2 THEN "winter"
    ELSE IF month >= 3 /\ month <= 5 THEN "summer"
    ELSE IF month >= 6 /\ month <= 9 THEN "monsoon"
    ELSE "post_monsoon"

\* a mutant matches the district as written
getAreaType_caseSensitive(district) ==
    LET districtLower == district
    IN  IF includes(districtLower, <<"c","e","n","t","r","a","l">>) THEN "central"
        ELSE IF includes(districtLower, <<"n","o","r","t","h">>) THEN "north"
        ELSE IF includes(districtLower, <<"s","o","u","t","h">>) THEN "south"
        ELSE IF includes(districtLower, <<"e","a","s","t">>) THEN "east"
        ELSE "west"

getAreaType(district) ==
    LET districtLower == toLowerCase(district)
    IN  IF includes(districtLower, <<"c","e","n","t","r","a","l">>) THEN "central"
        ELSE IF includes(districtLower, <<"n","o","r","t","h">>) THEN "north"
        ELSE IF includes(districtLower, <<"s","o","u","t","h">>) THEN "south"
        ELSE IF includes(districtLower, <<"e","a","s","t">>) THEN "east"
        ELSE "west"

Mult(a, p25, p10) == [aqi |-> R(a, 10), pm25 |-> R(p25, 10), pm10 |-> R(p10, 10)]

\* a mutant has no default for the hours without an entry
getHourlyMultiplier_noDefault(hr) ==
    CASE hr = 7  -> Mult(13, 14, 13)
      [] hr = 8  -> Mult(14, 15, 14)
      [] hr = 9  -> Mult(13, 14, 13)
      [] hr = 10 -> Mult(12, 13, 12)
      [] hr = 18 -> Mult(13, 14, 13)
      [] hr = 19 -> Mult(14, 15, 14)
      [] hr = 20 -> Mult(13, 14, 13)
      [] hr = 21 -> Mult(12, 13, 12)
      [] hr = 0  -> Mult(8, 7, 8)
      [] hr = 1  -> Mult(7, 6, 7)
      [] hr = 2  -> Mult(7, 6, 7)
      [] hr = 3  -> Mult(7, 6, 7)
      [] hr = 4  -> Mult(8, 7, 8)
      [] hr = 5  -> Mult(9, 8, 9)
      [] OTHER   -> Mult(0, 0, 0)

getHourlyMultiplier(hr) ==
    CASE hr = 7  -> Mult(13, 14, 13)
      [] hr = 8  -> Mult(14, 15, 14)
      [] hr = 9  -> Mult(13, 14, 13)
      [] hr = 10 -> Mult(12, 13, 12)
      [] hr = 18 -> Mult(13, 14, 13)
      [] hr = 19 -> Mult(14, 15, 14)
      [] hr = 20 -> Mult(13, 14, 13)
      [] hr = 21 -> Mult(12, 13, 12)
      [] hr = 0  -> Mult(8, 7, 8)
      [] hr = 1  -> Mult(7, 6, 7)
      [] hr = 2  -> Mult(7, 6, 7)
      [] hr = 3  -> Mult(7, 6, 7)
      [] hr = 4  -> Mult(8, 7, 8)
      [] hr = 5  -> Mult(9, 8, 9)
      [] OTHER   -> Mult(10, 10, 10)

----------------------------------------------------------------------------
(* AirQualityPredictor: feature extraction *)

\* areaInfo.district.toLowerCase() raises a TypeError on a null district
extractFeaturesThrows(area) == area.district = NullStr

extractFeatures(hist, weather, area, h) ==
    LET recent24h  == Array_slice(hist, 0, 24)
        recent3h   == Array_slice(hist, 0, 3)
        futureTime == now + h
        dow        == getDay(futureTime)
        mon        == getMonth(futureTime) + 1
    IN  [aqi_avg_24h    |-> calculateAverage(recent24h, "aqi"),
         pm25_avg_24h   |-> calculateAverage(recent24h, "pm25"),
         pm10_avg_24h   |-> calculateAverage(recent24h, "pm10"),
         no2_avg_24h    |-> calculateAverage(recent24h, "no2"),
         temperature    |-> OrDefault(weather.temperature, Num(25)),
         humidity       |-> OrDefault(weather.humidity, Num(60)),
         pressure       |-> OrDefault(weather.pressure, Num(1013)),
         wind_speed     |-> OrDefault(weather.wind_speed, Num(2)),
         wind_direction |-> OrDefault(weather.wind_direction, Num(180)),
         hour_of_day    |-> getHours(futureTime),
         day_of_week    |-> dow,
         month          |-> mon,
         is_weekend     |-> (dow = 0 \/ dow = 6),
         season         |-> getSeason(mon),
         aqi_trend_3h   |-> calculateTrend(recent3h, "aqi"),
         pm25_trend_3h  |-> calculateTrend(recent3h, "pm25"),
         area_type      |-> getAreaType(area.district)]

----------------------------------------------------------------------------
(* AirQualityPredictor: component predictors and ensemble *)

linearTrendPrediction_perRequest(features, h) ==
    LET trend_factor == RMin(R(h, hoursAhead), Num(1))
    IN  [aqi  |-> RAdd(features.aqi_avg_24h,
                       RMul(features.aqi_trend_3h, trend_factor)),
         pm25 |-> RAdd(features.pm25_avg_24h,
                       RMul(features.pm25_trend_3h, trend_factor)),
         pm10 |-> RAdd(features.pm10_avg_24h,
                       RMul(RMul(features.pm25_trend_3h, R(12, 10)), trend_factor))]

\* a mutant leaves the trend factor uncapped
linearTrendPrediction_uncapped(features, h) ==
    LET trend_factor == R(h, 24)
    IN  [aqi  |-> RAdd(features.aqi_avg_24h,
                       RMul(features.aqi_trend_3h, trend_factor)),
         pm25 |-> RAdd(features.pm25_avg_24h,
                       RMul(features.pm25_trend_3h, trend_factor)),
         pm10 |-> RAdd(features.pm10_avg_24h,
                       RMul(RMul(features.pm25_trend_3h, R(12, 10)), trend_factor))]

linearTrendPrediction(features, h) ==
    LET trend_factor == RMin(R(h, 24), Num(1))
    IN  [aqi  |-> RAdd(features.aqi_avg_24h,
                       RMul(features.aqi_trend_3h, trend_factor)),
         pm25 |-> RAdd(features.pm25_avg_24h,
                       RMul(features.pm25_trend_3h, trend_factor)),
         pm10 |-> RAdd(features.pm10_avg_24h,
                       RMul(RMul(features.pm25_trend_3h, R(12, 10)), trend_factor))]

seasonalMultipliers ==
    [winter       |-> Mult(13, 14, 13),
     summer       |-> Mult(11, 12, 11),
     monsoon      |-> Mult(7, 6, 7),
     post_monsoon |-> Mult(10, 10, 10)]

seasonalPrediction(features, h) ==
    LET multiplier        == seasonalMultipliers[features.season]
        hourlyMultipliers == getHourlyMultiplier(features.hour_of_day)
        weekendMultiplier == IF features.is_weekend THEN R(85, 100) ELSE Num(1)
    IN  [aqi  |-> RMul(RMul(RMul(features.aqi_avg_24h, multiplier.aqi),
                            hourlyMultipliers.aqi), weekendMultiplier),
         pm25 |-> RMul(RMul(RMul(features.pm25_avg_24h, multiplier.pm25),
                            hourlyMultipliers.pm25), weekendMultiplier),
         pm10 |-> RMul(RMul(RMul(features.pm10_avg_24h, multiplier.pm10),
                            hourlyMultipliers.pm10), weekendMultiplier)]

\* a mutant has no floor under the wind effect
weatherBasedPrediction_noFloor(features, h) ==
    LET windEffect     == RSub(Num(1), RMul(RSub(features.wind_speed, Num(2)), R(1, 10)))
        humidityEffect == RAdd(Num(1), RMul(RSub(features.humidity, Num(60)), R(5, 1000)))
        tempEffect     == RAdd(Num(1), RMul(RSub(features.temperature, Num(25)), R(1, 100)))
        pressureEffect == RAdd(Num(1), RMul(RSub(Num(1013), features.pressure), R(1, 1000)))
        weatherMultiplier ==
            RMul(RMul(RMul(windEffect, humidityEffect), tempEffect), pressureEffect)
    IN  [aqi  |-> RMul(features.aqi_avg_24h, weatherMultiplier),
         pm25 |-> RMul(features.pm25_avg_24h, weatherMultiplier),
         pm10 |-> RMul(features.pm10_avg_24h, weatherMultiplier)]

weatherBasedPrediction(features, h) ==
    LET windEffect     == RMax(R(1, 2),
                               RSub(Num(1), RMul(RSub(features.wind_speed, Num(2)), R(1, 10))))
        humidityEffect == RAdd(Num(1), RMul(RSub(features.humidity, Num(60)), R(5, 1000)))
        tempEffect     == RAdd(Num(1), RMul(RSub(features.temperature, Num(25)), R(1, 100)))
        pressureEffect == RAdd(Num(1), RMul(RSub(Num(1013), features.pressure), R(1, 1000)))
        weatherMultiplier ==
            RMul(RMul(RMul(windEffect, humidityEffect), tempEffect), pressureEffect)
    IN  [aqi  |-> RMul(features.aqi_avg_24h, weatherMultiplier),
         pm25 |-> RMul(features.pm25_avg_24h, weatherMultiplier),
         pm10 |-> RMul(features.pm10_avg_24h, weatherMultiplier)]

\* a mutant gives every season the same confidence
seasonalConfidence_flat ==
    [winter |-> Num(1), summer |-> Num(1), monsoon |-> Num(1), post_monsoon |-> Num(1)]

\* a mutant trusts the monsoon less
seasonalConfidence_lowMonsoon ==
    [winter |-> R(85, 100), summer |-> R(8, 10),
     monsoon |-> R(4, 10), post_monsoon |-> R(9, 10)]

seasonalConfidence ==
    [winter |-> R(85, 100), summer |-> R(8, 10),
     monsoon |-> R(6, 10), post_monsoon |-> R(9, 10)]

\* Arguments at which confidence * 100 is a tie (k + 1/2) in exact arithmetic
\* while the binary64 product of line 266-280 lies just below it, so that
\* Math.round goes down.
Binary64BelowTie ==
    {<<2, FALSE, FALSE, "monsoon">>,  <<4, FALSE, TRUE, "monsoon">>,
     <<14, FALSE, FALSE, "monsoon">>, <<20, FALSE, TRUE, "monsoon">>,
     <<23, TRUE, TRUE, "monsoon">>,   <<28, FALSE, TRUE, "monsoon">>,
     <<30, FALSE, FALSE, "monsoon">>, <<20, FALSE, FALSE, "post_monsoon">>}

calculateConfidence_percent(features, h) ==
    LET extremeWind == RLt(Num(10), features.wind_speed)
                          \/ RLt(features.wind_speed, R(5, 10))
        extremeHumidity == RLt(Num(90), features.humidity)
                              \/ RLt(features.humidity, Num(20))
        c1 == RMul(Num(1), RMax(R(3, 10), RSub(Num(1), R(h, 48))))
        c2 == IF extremeWind THEN RMul(c1, R(8, 10)) ELSE c1
        c3 == IF extremeHumidity THEN RMul(c2, R(9, 10)) ELSE c2
        confidence == RMul(c3, seasonalConfidence[features.season])
        scaled == RMul(RMax(R(1, 10), RMin(Num(1), confidence)), Num(100))
        rounded == IF <<h, extremeWind, extremeHumidity, features.season>>
                          \in Binary64BelowTie
                   THEN RSub(MathRound(scaled), Num(1))
                   ELSE MathRound(scaled)
    IN  rounded

calculateConfidence_rising(features, h) ==
    LET extremeWind == RLt(Num(10), features.wind_speed)
                          \/ RLt(features.wind_speed, R(5, 10))
        extremeHumidity == RLt(Num(90), features.humidity)
                              \/ RLt(features.humidity, Num(20))
        c1 == RMul(Num(1), RMax(R(3, 10), R(h, 48)))
        c2 == IF extremeWind THEN RMul(c1, R(8, 10)) ELSE c1
        c3 == IF extremeHumidity THEN RMul(c2, R(9, 10)) ELSE c2
        confidence == RMul(c3, seasonalConfidence[features.season])
        scaled == RMul(RMax(R(1, 10), RMin(Num(1), confidence)), Num(100))
        rounded == IF <<h, extremeWind, extremeHumidity, features.season>>
                          \in Binary64BelowTie
                   THEN RSub(MathRound(scaled), Num(1))
                   ELSE MathRound(scaled)
    IN  RMul(rounded, R(1, 100))

\* a mutant drops the floor of the horizon term
calculateConfidence_noFloor(features, h) ==
    LET extremeWind == RLt(Num(10), features.wind_speed)
                          \/ RLt(features.wind_speed, R(5, 10))
        extremeHumidity == RLt(Num(90), features.humidity)
                              \/ RLt(features.humidity, Num(20))
        c1 == RMul(Num(1), RSub(Num(1), R(h, 48)))
        c2 == IF extremeWind THEN RMul(c1, R(8, 10)) ELSE c1
        c3 == IF extremeHumidity THEN RMul(c2, R(9, 10)) ELSE c2
        confidence == RMul(c3, seasonalConfidence[features.season])
        scaled == RMul(RMax(R(1, 10), RMin(Num(1), confidence)), Num(100))
    IN  RMul(MathRound(scaled), R(1, 100))

calculateConfidence(features, h) ==
    LET extremeWind == RLt(Num(10), features.wind_speed)
                          \/ RLt(features.wind_speed, R(5, 10))
        extremeHumidity == RLt(Num(90), features.humidity)
                              \/ RLt(features.humidity, Num(20))
        c1 == RMul(Num(1), RMax(R(3, 10), RSub(Num(1), R(h, 48))))
        c2 == IF extremeWind THEN RMul(c1, R(8, 10)) ELSE c1
        c3 == IF extremeHumidity THEN RMul(c2, R(9, 10)) ELSE c2
        confidence == RMul(c3, seasonalConfidence[features.season])
        scaled == RMul(RMax(R(1, 10), RMin(Num(1), confidence)), Num(100))
        rounded == IF <<h, extremeWind, extremeHumidity, features.season>>
                          \in Binary64BelowTie
                   THEN RSub(MathRound(scaled), Num(1))
                   ELSE MathRound(scaled)
    IN  RMul(rounded, R(1, 100))

\* a mutant gives the linear component the larger weight
weights_swapped == [linear |-> R(4, 10), seasonal |-> R(3, 10), weather |-> R(3, 10)]

weights == [linear |-> R(3, 10), seasonal |-> R(4, 10), weather |-> R(3, 10)]

Weighted(l, s, w) ==
    RAdd(RAdd(RMul(l, weights.linear), RMul(s, weights.seasonal)),
         RMul(w, weights.weather))

\* the weighted ensemble of the three component predictors, rounded, before
\* the clamp of the returned record
ensemble(features, h) ==
    LET linearPrediction       == linearTrendPrediction(features, h)
        seasonalPred           == seasonalPrediction(features, h)
        weatherBasedPred       == weatherBasedPrediction(features, h)
    IN  [aqi  |-> MathRound(Weighted(linearPrediction.aqi, seasonalPred.aqi,
                                     weatherBasedPred.aqi)),
         pm25 |-> RMul(MathRound(RMul(Weighted(linearPrediction.pm25,
                      seasonalPred.pm25, weatherBasedPred.pm25), Num(10))), R(1, 10)),
         pm10 |-> RMul(MathRound(RMul(Weighted(linearPrediction.pm10,
                      seasonalPred.pm10, weatherBasedPred.pm10), Num(10))), R(1, 10))]

predictSingleHour_noClamp(features, h) ==
    LET e == ensemble(features, h)
    IN  [predicted_aqi            |-> e.aqi,
         predicted_pm25           |-> e.pm25,
         predicted_pm10           |-> e.pm10,
         confidence_score         |-> calculateConfidence(features, h),
         prediction_horizon_hours |-> h,
         features_used            |-> features,
         model_version            |-> modelVersion]

predictSingleHour(features, h) ==
    LET e == ensemble(features, h)
    IN  [predicted_aqi            |-> RMax(Num(0), RMin(Num(500), e.aqi)),
         predicted_pm25           |-> RMax(Num(0), e.pm25),
         predicted_pm10           |-> RMax(Num(0), e.pm10),
         confidence_score         |-> calculateConfidence(features, h),
         prediction_horizon_hours |-> h,
         features_used            |-> features,
         model_version            |-> modelVersion]

----------------------------------------------------------------------------
(* Inputs the model draws from *)

Reading(a, p25, p10, n) == [aqi |-> a, pm25 |-> p25, pm10 |-> p10, no2 |-> n]

RNormal  == Reading(Num(100), Num(40), Num(80), Num(20))
RLow     == Reading(Num(52), Num(16), Num(32), Num(8))
RHigh    == Reading(Num(480), Num(300), Num(400), Num(60))
RNegative     == Reading(Num(-50), Num(-10), Num(-20), Num(0))
RGlitch  == Reading(Num(480), Num(300), Num(-20), Num(60))
RAbsent  == Reading(NULL, NULL, NULL, NULL)
RNoAqi   == Reading(NULL, R(355, 10), Num(90), Num(20))

\* a history is its three newest readings, the readings up to the 24th,
\* and the older readings behind them
Profile(r0, r1, r2, body, tail) ==
    [head |-> <<r0, r1, r2>>, body |-> body, tail |-> tail]

PConstant == Profile(RNormal, RNormal, RNormal, RNormal, RHigh)
PRising   == Profile(RHigh, RNormal, RLow, RNormal, RLow)
PSevere   == Profile(RGlitch, RGlitch, RGlitch, RGlitch, RNormal)
PNegative == Profile(RNegative, RNegative, RNormal, RNegative, RNormal)
PAbsent   == Profile(RAbsent, RAbsent, RAbsent, RAbsent, RNormal)
PGaps     == Profile(RNoAqi, RNormal, RHigh, RNoAqi, RNormal)

Profiles == {PConstant, PRising, PSevere, PNegative, PAbsent, PGaps}

MkHistory(p, len) ==
    [i \in 1..len |-> IF i <= 3 THEN p.head[i]
                      ELSE IF i <= 24 THEN p.body ELSE p.tail]

HistoryLengths == {0, 23, 24, 24 + MaxExtra}

Weather(t, hum, p, ws, wd) ==
    [temperature |-> t, humidity |-> hum, pressure |-> p,
     wind_speed |-> ws, wind_direction |-> wd]

WMild   == Weather(Num(25), Num(60), Num(1013), Num(2), Num(180))
WStill  == Weather(Num(35), Num(95), Num(1003), Num(0), Num(0))
WLight  == Weather(Num(30), Num(80), Num(1013), R(3, 10), Num(90))
WStorm  == Weather(Num(15), Num(10), Num(993), Num(12), Num(270))
WAbsent == Weather(NULL, NULL, NULL, NULL, NULL)
WFrozen == Weather(Num(-1000), Num(60), Num(1013), Num(2), Num(180))

Weathers == {WMild, WStill, WLight, WStorm, WAbsent, WFrozen}

Str_SouthZone == <<"S","o","u","t","h"," ","Z","o","n","e">>
Str_Unknown   == <<"U","n","k","n","o","w","n">>
Str_NorthEast == <<"N","o","r","t","h","-","E","a","s","t">>

Area(name, district) == [name |-> name, district |-> district]

Areas == {Area("Jayanagar", Str_SouthZone), Area("Peenya", Str_Unknown),
          Area("Hebbal", Str_NorthEast), Area("Nowhere", NullStr)}

ShortHours == {-1, 0, 1, 2}

\* the inputs of the calls that run the whole horizon
LongProfiles == {PRising, PSevere, PNegative}

LongAreas == {Area("Jayanagar", Str_SouthZone)}

\* Wed 15 Oct 11:00, Fri 28 Feb 22:00, Sat 31 May 20:00, Tue 30 Sep 06:00
Clock == {At(10, 15, 11), At(2, 28, 22), At(5, 31, 20), At(9, 30, 6)}

----------------------------------------------------------------------------
(* AirQualityPredictor.generatePredictions as a process *)

NoOutcome == [status |-> "none", value |-> << >>, error |-> ""]

Returned(v) == [status |-> "returned", value |-> v, error |-> ""]

Threw(e) == [status |-> "threw", value |-> << >>, error |-> e]

InsufficientHistoryError ==
    "Insufficient historical data for prediction (minimum 24 hours required)"

LogEntry(o) ==
    [hist |-> historicalData, weather |-> weatherData, area |-> areaInfo,
     n |-> hoursAhead, at |-> now, moved |-> clockMoved, outcome |-> o]

\* the promise of generatePredictions settles with outcome o
Settle(o) ==
    /\ pc' = "idle"
    /\ outcome' = o
    /\ callLog' = IF Len(callLog) < MaxCalls
                  THEN Append(callLog, LogEntry(o)) ELSE callLog

\* const predictions: PredictionResult[] = [] -- a mutant keeps the array of
\* the previous call
EmptyArray_shared == predictions

EmptyArray == << >>

InsufficientHistory_below23(hist) == Len(hist) < 23

InsufficientHistory(hist) == Len(hist) < 24

LoopCondition_strict(hr, n) == hr < n

LoopCondition(hr, n) == hr <= n

\* entry of generatePredictions: the length check and the empty result array
generatePredictions(hist, weather, area, n) ==
    /\ pc = "idle"
    /\ historicalData' = hist
    /\ weatherData' = weather
    /\ areaInfo' = area
    /\ hoursAhead' = n
    /\ clockMoved' = FALSE
    /\ hour' = 1
    /\ predictions' = EmptyArray
    /\ IF InsufficientHistory(hist)
       THEN /\ pc' = "idle"
            /\ outcome' = Threw(InsufficientHistoryError)
            /\ callLog' = IF Len(callLog) < MaxCalls
                          THEN Append(callLog,
                                 [hist |-> hist, weather |-> weather, area |-> area,
                                  n |-> n, at |-> now, moved |-> FALSE,
                                  outcome |-> Threw(InsufficientHistoryError)])
                          ELSE callLog
       ELSE /\ pc' = "loop"
            /\ outcome' = NoOutcome
            /\ callLog' = callLog
    /\ UNCHANGED <<now, modelVersion>>

\* a caller outside the engine calls the predictor
Call(profiles, lengths, weathers, areas, hours, limit) ==
    /\ apc = "idle"
    /\ Len(callLog) < limit
    /\ \E p \in profiles, len \in lengths, w \in weathers, a \in areas, n \in hours :
          generatePredictions(MkHistory(p, len), w, a, n)
    /\ UNCHANGED <<advVars, routeVars>>
    /\ UNCHANGED pipelineVars

Iterate_skipFailedHour ==
    /\ pc = "loop"
    /\ LoopCondition(hour, hoursAhead)
    /\ IF extractFeaturesThrows(areaInfo)
       THEN /\ hour' = hour + 1
            /\ UNCHANGED <<pc, outcome, callLog, predictions>>
       ELSE /\ predictions' = Append(predictions,
                 predictSingleHour(
                     extractFeatures(historicalData, weatherData, areaInfo, hour), hour))
            /\ hour' = hour + 1
            /\ UNCHANGED <<pc, outcome, callLog>>
    /\ UNCHANGED <<now, historicalData, weatherData, areaInfo, hoursAhead,
                   modelVersion, clockMoved, advVars, routeVars>>
    /\ UNCHANGED pipelineVars

\* one iteration of the loop: features, forecast, push
Iterate ==
    /\ pc = "loop"
    /\ LoopCondition(hour, hoursAhead)
    /\ IF extractFeaturesThrows(areaInfo)
       THEN /\ Settle(Threw("TypeError"))
            /\ UNCHANGED <<hour, predictions>>
       ELSE /\ predictions' = Append(predictions,
                 predictSingleHour(
                     extractFeatures(historicalData, weatherData, areaInfo, hour), hour))
            /\ hour' = hour + 1
            /\ UNCHANGED <<pc, outcome, callLog>>
    /\ UNCHANGED <<now, historicalData, weatherData, areaInfo, hoursAhead,
                   modelVersion, clockMoved, advVars, routeVars>>
    /\ UNCHANGED pipelineVars

\* the loop is over: return predictions
Return ==
    /\ pc = "loop"
    /\ ~LoopCondition(hour, hoursAhead)
    /\ Settle(Returned(predictions))
    /\ UNCHANGED <<now, historicalData, weatherData, areaInfo, hoursAhead,
                   hour, predictions, modelVersion, clockMoved, advVars, routeVars>>
    /\ UNCHANGED pipelineVars

\* the wall clock passes an hour boundary
Tick ==
    /\ \E t \in Clock : t <= now /\ now < t + MaxTicks
    /\ now' = now + 1
    /\ clockMoved' = (clockMoved \/ pc # "idle")
    /\ UNCHANGED <<historicalData, weatherData, areaInfo, hoursAhead, pc, hour,
                   predictions, outcome, modelVersion, callLog, advVars,
                   routeVars>>
    /\ UNCHANGED pipelineVars

\* no completion received yet
NoResponse == [kind |-> "none", adjustments |-> << >>, insights |-> ""]

NoAdvOutcome ==
    [status |-> "none", value |-> << >>, error |-> "", aiInsights |-> "",
     riskFactors |-> << >>]

\* the batch handler before a request
NoBatch ==
    [pc |-> "idle", hoursAhead |-> 0, areas |-> << >>, index |-> 1,
     predictionRecords |-> << >>, results |-> << >>, errors |-> << >>,
     status |-> 0]

\* the handler has not answered
NoAnswer == [status |-> 0, predictions_generated |-> 0, error |-> ""]

InitEngine ==
    /\ historicalData = << >>
    /\ weatherData = WAbsent
    /\ areaInfo = Area("", NullStr)
    /\ hoursAhead = 0
    /\ pc = "idle"
    /\ hour = 1
    /\ predictions = << >>
    /\ outcome = NoOutcome
    /\ modelVersion = "v1.0.0"
    /\ clockMoved = FALSE
    /\ callLog = << >>
    /\ apc = "idle"
    /\ includeAIInsights = FALSE
    /\ aiResponse = NoResponse
    /\ basePredictions = << >>
    /\ aiEnhancedPredictions = << >>
    /\ advOutcome = NoAdvOutcome
    /\ rpc = "idle"
    /\ requestHours = 0
    /\ routePredictions = << >>
    /\ answer = NoAnswer
    /\ batch = NoBatch

\* the pipeline as its constructor leaves it
InitCommon ==
    /\ InitEngine
    /\ retrainingJobs = << >>
    /\ isRetrainingEnabled = TRUE
    /\ lastRegularRetraining = now
    /\ jobId = 0

Init == now \in Clock /\ InitCommon /\ table = << >>

Next ==
    \/ Call(Profiles, HistoryLengths, Weathers, Areas, ShortHours, 1)
    \/ Call(LongProfiles, {24}, Weathers, LongAreas, {MaxHours}, 1)
    \/ Iterate
    \/ Return

Spec == Init /\ [][Next]_vars

----------------------------------------------------------------------------
(* Several calls on the singleton predictor, the clock running *)

CallsProfiles == {PRising}

CallsWeathers == {WMild}

CallsAreas == {Area("Jayanagar", Str_SouthZone), Area("Hebbal", Str_NorthEast)}

CallsHours == {1, 2}

InitCalls == now = At(2, 28, 22) /\ InitCommon /\ table = << >>

NextCalls ==
    \/ Call(CallsProfiles, {24}, CallsWeathers, CallsAreas, CallsHours, MaxCalls)
    \/ Iterate
    \/ Return
    \/ Tick

SpecCalls == InitCalls /\ [][NextCalls]_vars

----------------------------------------------------------------------------
(* Calls over histories with missing values and over more districts *)

RNoPm10High == Reading(Num(480), Num(300), NULL, Num(60))
RNoPm10     == Reading(Num(100), Num(40), NULL, Num(20))
RNoPm10Low  == Reading(Num(52), Num(16), NULL, Num(8))

\* pm10 missing in the 24 newest readings, present behind them
PNoPm10 == Profile(RNoPm10High, RNoPm10, RNoPm10Low, RNoPm10, RNormal)

\* aqi missing in the 24 newest readings, present behind them
PNoAqi == Profile(RNoAqi, RNoAqi, RNoAqi, RNoAqi, RNormal)

\* aqi missing in the newest, the third, the second, the first and third
\* of the three newest readings
PGapFirst  == Profile(RNoAqi, RNormal, RHigh, RNormal, RLow)
PGapLast   == Profile(RHigh, RNormal, RNoAqi, RNormal, RLow)
PGapMiddle == Profile(RHigh, RNoAqi, RLow, RNormal, RLow)
PGapBoth   == Profile(RNoAqi, RHigh, RNoAqi, RNormal, RLow)

FeatureProfiles ==
    {PConstant, PRising, PAbsent, PGaps, PNoPm10, PNoAqi,
     PGapFirst, PGapLast, PGapMiddle, PGapBoth}

FeatureLengths == {24, 24 + MaxExtra}

FeatureWeathers == {WMild, WStorm}

Str_EastCentral == <<"E","a","s","t"," ","C","e","n","t","r","a","l">>
Str_SOUTHEAST   == <<"S","O","U","T","H","E","A","S","T">>
Str_Eastern     == <<"E","a","s","t","e","r","n">>
Str_Empty       == << >>

FeatureAreas ==
    {Area("Jayanagar", Str_SouthZone), Area("Peenya", Str_Unknown),
     Area("Hebbal", Str_NorthEast), Area("Shivajinagar", Str_EastCentral),
     Area("HSR", Str_SOUTHEAST), Area("Whitefield", Str_Eastern),
     Area("Unnamed", Str_Empty)}

FeatureHours == {1, 2}

InitFeatures == now = At(10, 15, 11) /\ InitCommon /\ table = << >>

NextFeatures ==
    \/ Call(FeatureProfiles, FeatureLengths, FeatureWeathers, FeatureAreas,
            FeatureHours, 1)
    \/ Iterate
    \/ Return

SpecFeatures == InitFeatures /\ [][NextFeatures]_vars

----------------------------------------------------------------------------
(* Calls on a constant history at every hour of a week *)

PFlat == Profile(RNormal, RNormal, RNormal, RNormal, RNormal)

ExampleProfiles == {PFlat}

ExampleLengths == {30}

ExampleWeathers == {WMild, WStorm}

ExampleHours == {1, 2}

\* every hour from Mon 13 Oct 00:00 to Sun 19 Oct 23:00
ExampleClock == {At(10, 13, 0) + k : k \in 0..167}

InitExample == now \in ExampleClock /\ InitCommon /\ table = << >>

NextExample ==
    \/ Call(ExampleProfiles, ExampleLengths, ExampleWeathers, LongAreas, ExampleHours, 1)
    \/ Iterate
    \/ Return

SpecExample == InitExample /\ [][NextExample]_vars

----------------------------------------------------------------------------
(* Pairs of calls that differ in the wind speed *)

Breeze(ws) == Weather(Num(25), Num(60), Num(1013), ws, Num(180))

Gale(ws) == Weather(Num(15), Num(10), Num(993), ws, Num(270))

WindSpeeds == {R(3, 10), Num(2), Num(5), R(69, 10), Num(7), Num(8), Num(12), Num(25)}

WindWeathers == {Breeze(ws) : ws \in WindSpeeds} \cup {Gale(Num(5)), Gale(Num(12))}

WindProfiles == {PRising}

WindLengths == {24}

WindHours == {1}

InitWind == now = At(10, 15, 11) /\ InitCommon /\ table = << >>

NextWind ==
    \/ Call(WindProfiles, WindLengths, WindWeathers, LongAreas, WindHours, 2)
    \/ Iterate
    \/ Return

SpecWind == InitWind /\ [][NextWind]_vars

----------------------------------------------------------------------------
(* Calls made two hours before the end of each month *)

\* 22:00 on the last day of every month
MonthEnds == {At(m + 1, 1, 0) - 2 : m \in 1..11} \cup {At(12, 31, 22)}

SeasonProfiles == {PRising}

SeasonLengths == {24}

SeasonWeathers == {WMild, WStorm}

SeasonHours == {1, 2}

InitSeasons == now \in MonthEnds /\ InitCommon /\ table = << >>

NextSeasons ==
    \/ Call(SeasonProfiles, SeasonLengths, SeasonWeathers, LongAreas, SeasonHours, 1)
    \/ Iterate
    \/ Return

SpecSeasons == InitSeasons /\ [][NextSeasons]_vars

----------------------------------------------------------------------------
(* AdvancedMLEngine: AI enhancement of the base forecasts *)

\* a JSON value of a field of the completion: a number, a string (its
\* characters) or null (also standing for an absent field)
JsNumber(r) == [type |-> "number", num |-> r, str |-> << >>]

JsString(s) == [type |-> "string", num |-> NULL, str |-> s]

JsNull == [type |-> "null", num |-> NULL, str |-> << >>]

\* ToBoolean
Truthy(v) ==
    CASE v.type = "number" -> ~IsNull(v.num) /\ v.num[1] # 0
      [] v.type = "string" -> v.str # << >>
      [] OTHER -> FALSE

\* v || 0
OrZero(v) == IF Truthy(v) THEN v ELSE JsNumber(Num(0))

NaN == <<1, 0>>

DigitChars == <<"0", "1", "2", "3", "4", "5", "6", "7", "8", "9">>

IsDigit(c) == \E i \in 1..10 : DigitChars[i] = c

DigitValue(c) == (CHOOSE i \in 1..10 : DigitChars[i] = c) - 1

RECURSIVE Digits(_)
Digits(n) ==
    IF n < 10 THEN <<DigitChars[n + 1]>>
    ELSE Digits(n \div 10) \o <<DigitChars[(n % 10) + 1]>>

\* Number.prototype.toString of a non-negative number with at most two decimals
NumberToString(r) ==
    LET whole == r[1] \div r[2]
        frac  == ((r[1] % r[2]) * 100) \div r[2]
    IN  Digits(whole) \o
        (IF frac = 0 THEN << >>
         ELSE <<".", DigitChars[(frac \div 10) + 1]>> \o
              (IF frac % 10 = 0 THEN << >> ELSE <<DigitChars[(frac % 10) + 1]>>))

RECURSIVE IntValue(_)
IntValue(s) ==
    IF s = << >> THEN 0
    ELSE IntValue(SubSeq(s, 1, Len(s) - 1)) * 10 + DigitValue(s[Len(s)])

RECURSIVE Pow10(_)
Pow10(k) == IF k = 0 THEN 1 ELSE 10 * Pow10(k - 1)

\* StringToNumber of a string that starts with a digit: an unsigned decimal
\* literal is its value, anything else is NaN
ToNumber(s) ==
    LET dots == {i \in 1..Len(s) : s[i] = "."}
    IN  IF /\ \A i \in 1..Len(s) : IsDigit(s[i]) \/ s[i] = "."
           /\ Cardinality(dots) <= 1
        THEN LET k == IF dots = {} THEN 0
                      ELSE Len(s) - (CHOOSE i \in dots : TRUE)
             IN  R(IntValue(SelectSeq(s, IsDigit)), Pow10(k))
        ELSE NaN

\* x + v for a number x: addition, or concatenation when v is a string
JsPlus(x, v) ==
    IF v.type = "string" THEN JsString(NumberToString(x) \o v.str)
    ELSE JsNumber(RAdd(x, v.num))

\* ToNumber of the argument of Math.min / Math.max
ArgNumber(v) == IF v.type = "string" THEN ToNumber(v.str) ELSE v.num

MathMin(a, b) == IF a = NaN \/ b = NaN THEN NaN ELSE RMin(a, b)

MathMax(a, b) == IF a = NaN \/ b = NaN THEN NaN ELSE RMax(a, b)

\* an element of the "adjustments" array of the completion; kind "null"
\* is a null element
Adjustment(hr, aqi, pm25, conf) ==
    [kind |-> "object", hour |-> hr, aqi_adjustment |-> aqi,
     pm25_adjustment |-> pm25, confidence_adjustment |-> conf]

NullAdjustment ==
    [kind |-> "null", hour |-> 0, aqi_adjustment |-> JsNull,
     pm25_adjustment |-> JsNull, confidence_adjustment |-> JsNull]

\* what openai.chat.completions.create produced:
\*   network_error  the request rejects
\*   no_choices     a response without choices[0]
\*   unparseable    content that JSON.parse rejects
\*   json_null      content "null"
\*   not_array      JSON whose "adjustments" is not an array
\*   empty_content  no content, read as "{}"
\*   json           JSON with an "adjustments" array (and insights or none)
Response(kind, adjustments, insights) ==
    [kind |-> kind, adjustments |-> adjustments, insights |-> insights]

RaisingKinds == {"network_error", "no_choices", "unparseable", "json_null"}

\* adjustments.find(adj => adj.hour === h): index of the first match, 0 if none
FindAdjustment(adjustments, h) ==
    IF \E j \in 1..Len(adjustments) : adjustments[j].hour = h
    THEN CHOOSE j \in 1..Len(adjustments) :
            /\ adjustments[j].hour = h
            /\ \A k \in 1..(j - 1) : adjustments[k].hour # h
    ELSE 0

\* the callback of find reads adj.hour: a TypeError on a null element that
\* is reached before a match
FindThrows(adjustments, h) ==
    \E j \in 1..Len(adjustments) :
        /\ adjustments[j].kind = "null"
        /\ \A k \in 1..(j - 1) : adjustments[k].hour # h

\* a mutant adds the deltas without clamping the sums
EnhanceOne_noClamp(prediction, adjustments) ==
    LET j == FindAdjustment(adjustments, prediction.prediction_horizon_hours)
    IN  IF j = 0 THEN prediction
        ELSE [prediction EXCEPT
                !.predicted_aqi =
                    ArgNumber(JsPlus(@, OrZero(adjustments[j].aqi_adjustment))),
                !.predicted_pm25 =
                    ArgNumber(JsPlus(@, OrZero(adjustments[j].pm25_adjustment))),
                !.confidence_score =
                    ArgNumber(JsPlus(@, OrZero(adjustments[j].confidence_adjustment))),
                !.model_version = @ \o "-ai-enhanced"]

EnhanceOne(prediction, adjustments) ==
    LET j == FindAdjustment(adjustments, prediction.prediction_horizon_hours)
    IN  IF j = 0 THEN prediction
        ELSE [prediction EXCEPT
                !.predicted_aqi =
                    MathMax(Num(0), MathMin(Num(500),
                        ArgNumber(JsPlus(@, OrZero(adjustments[j].aqi_adjustment))))),
                !.predicted_pm25 =
                    MathMax(Num(0),
                        ArgNumber(JsPlus(@, OrZero(adjustments[j].pm25_adjustment)))),
                !.confidence_score =
                    MathMax(R(1, 10), MathMin(Num(1),
                        ArgNumber(JsPlus(@, OrZero(adjustments[j].confidence_adjustment))))),
                !.model_version = @ \o "-ai-enhanced"]

applyAIEnhancementsThrows(base, response) ==
    \/ response.kind = "not_array" /\ base # << >>
    \/ /\ response.kind = "json"
       /\ \E i \in 1..Len(base) :
             FindThrows(response.adjustments, base[i].prediction_horizon_hours)

applyAIEnhancements(base, adjustments) ==
    [i \in 1..Len(base) |-> EnhanceOne(base[i], adjustments)]

UnavailableInsights == "AI enhancement unavailable - using base predictions"

\* try { create, JSON.parse, applyAIEnhancements } catch { base predictions }
enhanceWithAI(base, response) ==
    IF response.kind \in RaisingKinds \/ applyAIEnhancementsThrows(base, response)
    THEN [enhancedPredictions |-> base, insights |-> UnavailableInsights]
    ELSE [enhancedPredictions |->
              applyAIEnhancements(base,
                  IF response.kind = "json" THEN response.adjustments ELSE << >>),
          insights |-> IF response.insights = ""
                       THEN "AI analysis completed successfully"
                       ELSE response.insights]

Five == <<"5">>

High == <<"h", "i", "g", "h">>

Adjustments ==
    {<< >>,
     <<Adjustment(1, JsNumber(Num(5)), JsNumber(Num(2)), JsNumber(R(5, 100)))>>,
     <<Adjustment(2, JsNumber(Num(-1000)), JsNumber(Num(-1000)), JsNumber(Num(-1))),
       Adjustment(1, JsNumber(Num(1000)), JsNull, JsNumber(Num(1)))>>,
     <<NullAdjustment,
       Adjustment(1, JsNumber(Num(5)), JsNumber(Num(2)), JsNumber(R(5, 100)))>>,
     <<Adjustment(7, JsNumber(Num(5)), JsNumber(Num(2)), JsNumber(R(5, 100)))>>,
     <<Adjustment(1, JsString(Five), JsString(Five), JsString(Five))>>,
     <<Adjustment(2, JsString(High), JsNull, JsNumber(Num(0)))>>}

Responses ==
    {Response(k, << >>, "") :
        k \in RaisingKinds \cup {"not_array", "empty_content"}}
    \cup {Response("json", a, i) : a \in Adjustments, i \in {"", "stagnant air"}}

AdvReturned(v, insights, risks) ==
    [status |-> "returned", value |-> v, error |-> "", aiInsights |-> insights,
     riskFactors |-> risks]

AdvThrew(e) ==
    [status |-> "threw", value |-> << >>, error |-> e, aiInsights |-> "",
     riskFactors |-> << >>]

\* entry of generateAdvancedPredictions: the try block starts the base call;
\* ai is includeAIInsights && process.env.OPENAI_API_KEY
generateAdvancedPredictions(hist, weather, area, n, ai) ==
    /\ apc = "idle"
    /\ generatePredictions(hist, weather, area, n)
    /\ includeAIInsights' = ai
    /\ apc' = "base"
    /\ aiResponse' = NoResponse
    /\ basePredictions' = << >>
    /\ aiEnhancedPredictions' = << >>
    /\ advOutcome' = NoAdvOutcome

\* a caller outside the route calls the engine
AdvCall(profiles, lengths, weathers, areas, hours) ==
    /\ rpc = "idle"
    /\ advOutcome.status = "none"
    /\ \E p \in profiles, len \in lengths, w \in weathers, a \in areas, n \in hours,
          ai \in BOOLEAN :
          generateAdvancedPredictions(MkHistory(p, len), w, a, n, ai)
    /\ UNCHANGED routeVars
    /\ UNCHANGED pipelineVars

\* the base call settled: go on to the enhancement, or, when it threw, to the
\* catch block, which calls the base predictor again
AdvAfterBase ==
    /\ apc = "base"
    /\ pc = "idle"
    /\ IF outcome.status = "threw"
       THEN /\ apc' = "fallback"
            /\ generatePredictions(historicalData, weatherData, areaInfo, hoursAhead)
            /\ UNCHANGED <<basePredictions, aiEnhancedPredictions>>
       ELSE /\ basePredictions' = outcome.value
            /\ aiEnhancedPredictions' = outcome.value
            /\ apc' = IF includeAIInsights THEN "enhance" ELSE "finish"
            /\ UNCHANGED <<now, coreVars>>
    /\ UNCHANGED <<includeAIInsights, aiResponse, advOutcome>>
    /\ UNCHANGED routeVars
    /\ UNCHANGED pipelineVars

\* the completion call settles and enhanceWithAI returns
AdvEnhance ==
    /\ apc = "enhance"
    /\ \E r \in Responses :
          /\ aiResponse' = r
          /\ aiEnhancedPredictions' = enhanceWithAI(basePredictions, r).enhancedPredictions
    /\ apc' = "finish"
    /\ UNCHANGED <<now, coreVars, includeAIInsights, basePredictions, advOutcome>>
    /\ UNCHANGED routeVars
    /\ UNCHANGED pipelineVars

\* metrics, risk factors and the retraining check read the forecasts and
\* leave them alone; the result is returned
AdvFinish ==
    /\ apc = "finish"
    /\ advOutcome' = AdvReturned(aiEnhancedPredictions,
                        IF aiResponse = NoResponse THEN ""
                        ELSE enhanceWithAI(basePredictions, aiResponse).insights,
                        << >>)
    /\ apc' = "idle"
    /\ UNCHANGED <<now, coreVars, includeAIInsights, aiResponse, basePredictions,
                   aiEnhancedPredictions>>
    /\ UNCHANGED routeVars
    /\ UNCHANGED pipelineVars

\* the call of the catch block settled
AdvFallback ==
    /\ apc = "fallback"
    /\ pc = "idle"
    /\ advOutcome' = IF outcome.status = "threw"
                     THEN AdvThrew(outcome.error)
                     ELSE AdvReturned(outcome.value, "",
                             <<"AI enhancement unavailable - using base model">>)
    /\ apc' = "idle"
    /\ UNCHANGED <<now, coreVars, includeAIInsights, aiResponse, basePredictions,
                   aiEnhancedPredictions>>
    /\ UNCHANGED routeVars
    /\ UNCHANGED pipelineVars

AdvProfiles == {PRising}

AdvLengths == {23, 24}

AdvWeathers == {WMild, WStorm}

AdvAreas == {Area("Jayanagar", Str_SouthZone), Area("Nowhere", NullStr)}

AdvHours == {0, 1, 2, 3}

InitAdv == now = At(10, 15, 11) /\ InitCommon /\ table = << >>

NextAdv ==
    \/ AdvCall(AdvProfiles, AdvLengths, AdvWeathers, AdvAreas, AdvHours)
    \/ Iterate
    \/ Return
    \/ AdvAfterBase
    \/ AdvEnhance
    \/ AdvFinish
    \/ AdvFallback
    \/ Tick

SpecAdv == InitAdv /\ [][NextAdv]_vars

----------------------------------------------------------------------------
(* POST /api/predictions/generate *)

\* Math.min(hoursAhead, 72) of the call of the advanced engine
RouteAdvancedCap == 72

\* Math.min(hoursAhead, 48) of the fallback call of the base predictor
RouteBaseCap == 48

Min(a, b) == IF a < b THEN a ELSE b

Answer(status, n, err) ==
    [status |-> status, predictions_generated |-> n, error |-> err]

\* a row of air_quality_predictions; predicted_for in whole hours
Row(area, prediction) ==
    [area_id |-> area.name,
     predicted_for |-> now + prediction.prediction_horizon_hours,
     prediction |-> prediction]

\* predictions.map(...) of line 106
predictionRecords(area, preds) == [k \in 1..Len(preds) |-> Row(area, preds[k])]

\* delete().eq("area_id", areaId).gte("predicted_for", now)
DeleteFuture(rows, area) ==
    SelectSeq(rows, LAMBDA r : ~(r.area_id = area.name /\ r.predicted_for >= now))

\* what the queries for the area and its readings give
Lookups == {"ok", "no_area_id", "area_not_found", "history_error"}

\* the request arrives: validation, the two queries, the length check and the
\* call of the advanced engine; the weather is read from the newest reading
RoutePost(profiles, lengths, weathers, areas, hours) ==
    /\ rpc = "idle"
    /\ apc = "idle"
    /\ pc = "idle"
    /\ answer = NoAnswer
    /\ \E h \in hours, lookup \in Lookups :
          /\ requestHours' = h
          /\ CASE lookup = "no_area_id" ->
                    /\ answer' = Answer(400, 0, "Area ID is required")
                    /\ UNCHANGED <<rpc, now, coreVars, advVars>>
               [] lookup = "area_not_found" ->
                    /\ answer' = Answer(404, 0, "Area not found")
                    /\ UNCHANGED <<rpc, now, coreVars, advVars>>
               [] lookup = "history_error" ->
                    /\ answer' = Answer(500, 0, "Failed to generate predictions")
                    /\ UNCHANGED <<rpc, now, coreVars, advVars>>
               [] lookup = "ok" ->
                    \E p \in profiles, len \in lengths, w \in weathers,
                       a \in areas, ai \in BOOLEAN :
                       IF len < 24
                       THEN /\ answer' = Answer(400, 0, InsufficientHistoryError)
                            /\ UNCHANGED <<rpc, now, coreVars, advVars>>
                       ELSE /\ generateAdvancedPredictions(MkHistory(p, len), w, a,
                                   Min(h, RouteAdvancedCap), ai)
                            /\ rpc' = "advanced"
                            /\ answer' = answer
    /\ UNCHANGED <<routePredictions, table, batch>>
    /\ UNCHANGED pipelineVars

\* the engine settled: take its predictions, or, when it rejected, call the
\* base predictor (the catch block of line 87)
RouteAfterAdvanced ==
    /\ rpc = "advanced"
    /\ apc = "idle"
    /\ advOutcome.status # "none"
    /\ IF advOutcome.status = "returned"
       THEN /\ routePredictions' = advOutcome.value
            /\ rpc' = "store"
            /\ UNCHANGED <<now, coreVars>>
       ELSE /\ generatePredictions(historicalData, weatherData, areaInfo,
                   Min(requestHours, RouteBaseCap))
            /\ rpc' = "fallback"
            /\ UNCHANGED routePredictions
    /\ UNCHANGED <<advVars, requestHours, table, answer, batch>>
    /\ UNCHANGED pipelineVars

\* the fallback call settled; its rejection reaches the outer catch block
RouteAfterFallback ==
    /\ rpc = "fallback"
    /\ pc = "idle"
    /\ IF outcome.status = "returned"
       THEN /\ routePredictions' = outcome.value
            /\ rpc' = "store"
            /\ UNCHANGED answer
       ELSE /\ answer' = Answer(500, 0, "Failed to generate predictions")
            /\ rpc' = "idle"
            /\ UNCHANGED routePredictions
    /\ UNCHANGED <<now, coreVars, advVars, requestHours, table, batch>>
    /\ UNCHANGED pipelineVars

\* await delete(): the future rows of the area are removed; the result of
\* the call is not looked at
RouteStore ==
    /\ rpc = "store"
    /\ table' = DeleteFuture(table, areaInfo)
    /\ rpc' = "insert"
    /\ UNCHANGED <<now, coreVars, advVars, requestHours, routePredictions,
                   answer, batch>>
    /\ UNCHANGED pipelineVars

\* await insert(): the new rows are stored and the handler answers 200, or
\* insertError is thrown to the outer catch block, which answers 500
RouteInsert ==
    /\ rpc = "insert"
    /\ \E inserted \in BOOLEAN :
          IF inserted
          THEN /\ table' = table \o predictionRecords(areaInfo, routePredictions)
               /\ answer' = Answer(200, Len(routePredictions), "")
          ELSE /\ table' = table
               /\ answer' = Answer(500, 0, "Failed to generate predictions")
    /\ rpc' = "idle"
    /\ UNCHANGED <<now, coreVars, advVars, requestHours, routePredictions, batch>>
    /\ UNCHANGED pipelineVars

RouteProfiles == {PRising}

RouteLengths == {23, 24}

RouteWeathers == {WMild}

RouteAreas == {Area("Jayanagar", Str_SouthZone), Area("Nowhere", NullStr)}

RouteHours == {24, 48, 49, 72, 100}

\* a row an earlier request stored for a coming hour
StaleRow ==
    Row(Area("Jayanagar", Str_SouthZone),
        predictSingleHour(
            extractFeatures(MkHistory(PConstant, 24), WMild,
                            Area("Jayanagar", Str_SouthZone), 5), 5))

InitRoute ==
    /\ now = At(10, 15, 11)
    /\ InitCommon
    /\ table \in {<< >>, <<StaleRow>>}

NextRoute ==
    \/ RoutePost(RouteProfiles, RouteLengths, RouteWeathers, RouteAreas, RouteHours)
    \/ Iterate
    \/ Return
    \/ AdvAfterBase
    \/ AdvEnhance
    \/ AdvFinish
    \/ AdvFallback
    \/ RouteAfterAdvanced
    \/ RouteAfterFallback
    \/ RouteStore
    \/ RouteInsert

SpecRoute == InitRoute /\ [][NextRoute]_vars

\* one request for which a future prediction of the area is stored
InitRouteStored ==
    /\ InitRoute
    /\ table = <<StaleRow>>

SpecRouteStored == InitRouteStored /\ [][NextRoute]_vars

----------------------------------------------------------------------------
(* POST /api/predictions/batch *)

\* how a call of generatePredictions settles; the function has no await, so
\* that a handler sees the call as one step
generatePredictionsOutcome(hist, weather, area, n) ==
    IF InsufficientHistory(hist) THEN Threw(InsufficientHistoryError)
    ELSE IF LoopCondition(1, n) /\ extractFeaturesThrows(area) THEN Threw("TypeError")
    ELSE Returned([h \in 1..(IF n < 0 THEN 0 ELSE n) |->
                      predictSingleHour(extractFeatures(hist, weather, area, h), h)])

\* a mutant lets a failure end the loop
PushError_abort(b, area, message) ==
    [b EXCEPT !.errors = Append(@, [area |-> area.name, message |-> message]),
              !.predictionRecords = << >>,
              !.index = Len(b.areas) + 1,
              !.pc = "loop"]

\* errors.push(`${area.name}: ...`) followed by the next iteration of the loop
PushError(b, area, message) ==
    [b EXCEPT !.errors = Append(@, [area |-> area.name, message |-> message]),
              !.predictionRecords = << >>,
              !.index = @ + 1,
              !.pc = "loop"]

\* results.push({...}) at the end of the loop body
PushResult(b, area, n) ==
    [b EXCEPT !.results = Append(@, [area |-> area.name, predictions_generated |-> n,
                                     status |-> "success"]),
              !.predictionRecords = << >>,
              !.index = @ + 1,
              !.pc = "loop"]

\* the request arrives and the areas are read; a failed query is thrown to
\* the outer catch block, which answers 500
BatchPost(areaLists, hours) ==
    /\ batch.pc = "idle"
    /\ batch.status = 0
    /\ \E h \in hours, fetched \in BOOLEAN :
          IF fetched
          THEN \E as \in areaLists :
                  batch' = [NoBatch EXCEPT !.pc = "loop", !.hoursAhead = h, !.areas = as]
          ELSE batch' = [NoBatch EXCEPT !.pc = "done", !.hoursAhead = h, !.status = 500]
    /\ UNCHANGED <<now, coreVars, advVars, rpc, requestHours, routePredictions,
                   table, answer>>
    /\ UNCHANGED pipelineVars

HistoryLookups == {"ok", "history_error", "rejected"}

\* the loop body up to the records: the readings of the area are read, the
\* predictor is called and the rows are prepared
BatchArea(profiles, lengths, weathers) ==
    /\ batch.pc = "loop"
    /\ batch.index <= Len(batch.areas)
    /\ LET area == batch.areas[batch.index]
       IN  \E lookup \in HistoryLookups :
              CASE lookup = "rejected" ->
                      batch' = PushError(batch, area, "Unknown error")
                [] lookup = "history_error" ->
                      batch' = PushError(batch, area, "Insufficient historical data")
                [] lookup = "ok" ->
                      \E p \in profiles, len \in lengths, w \in weathers :
                         IF len < 24
                         THEN batch' = PushError(batch, area,
                                                 "Insufficient historical data")
                         ELSE LET o == generatePredictionsOutcome(
                                           MkHistory(p, len), w, area,
                                           Min(batch.hoursAhead, RouteBaseCap))
                              IN  IF o.status = "threw"
                                  THEN batch' = PushError(batch, area, o.error)
                                  ELSE batch' =
                                         [batch EXCEPT
                                            !.predictionRecords =
                                                predictionRecords(area, o.value),
                                            !.pc = "delete"]
    /\ UNCHANGED <<now, coreVars, advVars, rpc, requestHours, routePredictions,
                   table, answer>>
    /\ UNCHANGED pipelineVars

\* await delete(): the future rows of the area are removed; a rejection goes
\* to the catch block of the loop body
BatchDelete ==
    /\ batch.pc = "delete"
    /\ LET area == batch.areas[batch.index]
       IN  \E rejected \in BOOLEAN :
              IF rejected
              THEN /\ batch' = PushError(batch, area, "Unknown error")
                   /\ table' = table
              ELSE /\ batch' = [batch EXCEPT !.pc = "insert"]
                   /\ table' = DeleteFuture(table, area)
    /\ UNCHANGED <<now, coreVars, advVars, rpc, requestHours, routePredictions,
                   answer>>
    /\ UNCHANGED pipelineVars

InsertOutcomes == {"ok", "insert_error", "rejected"}

\* await insert(): the rows are stored and the area is a success, or the
\* area is a failure
BatchInsert ==
    /\ batch.pc = "insert"
    /\ LET area == batch.areas[batch.index]
       IN  \E o \in InsertOutcomes :
              CASE o = "ok" ->
                      /\ table' = table \o batch.predictionRecords
                      /\ batch' = PushResult(batch, area, Len(batch.predictionRecords))
                [] o = "insert_error" ->
                      /\ table' = table
                      /\ batch' = PushError(batch, area, "Failed to store predictions")
                [] o = "rejected" ->
                      /\ table' = table
                      /\ batch' = PushError(batch, area, "Unknown error")
    /\ UNCHANGED <<now, coreVars, advVars, rpc, requestHours, routePredictions,
                   answer>>
    /\ UNCHANGED pipelineVars

\* the loop is over: the handler answers with the two lists
BatchRespond ==
    /\ batch.pc = "loop"
    /\ batch.index > Len(batch.areas)
    /\ batch' = [batch EXCEPT !.pc = "done", !.status = 200]
    /\ UNCHANGED <<now, coreVars, advVars, rpc, requestHours, routePredictions,
                   table, answer>>
    /\ UNCHANGED pipelineVars

BatchAreaLists ==
    {<< >>,
     <<Area("Jayanagar", Str_SouthZone)>>,
     <<Area("Jayanagar", Str_SouthZone), Area("Nowhere", NullStr),
       Area("Hebbal", Str_NorthEast)>>}

BatchHours == {0, 1, 2}

BatchProfiles == {PRising}

BatchLengths == {23, 24}

BatchWeathers == {WMild}

InitBatch ==
    /\ now = At(10, 15, 11)
    /\ InitCommon
    /\ table \in {<< >>, <<StaleRow>>}

NextBatch ==
    \/ BatchPost(BatchAreaLists, BatchHours)
    \/ BatchArea(BatchProfiles, BatchLengths, BatchWeathers)
    \/ BatchDelete
    \/ BatchInsert
    \/ BatchRespond

SpecBatch == InitBatch /\ [][NextBatch]_vars

----------------------------------------------------------------------------
(* A request for one area and a batch run at the same time *)

StoreProfiles == {PRising}

StoreLengths == {24}

StoreWeathers == {WMild}

StoreHours == {1, 2}

StoreAreaLists == {<<Area("Jayanagar", Str_SouthZone)>>}

InitStore ==
    /\ now = At(10, 15, 11)
    /\ InitCommon
    /\ table \in {<< >>, <<StaleRow>>}

NextStore ==
    \/ RoutePost(StoreProfiles, StoreLengths, StoreWeathers, RouteAreas, StoreHours)
    \/ Iterate
    \/ Return
    \/ AdvAfterBase
    \/ AdvEnhance
    \/ AdvFinish
    \/ AdvFallback
    \/ RouteAfterAdvanced
    \/ RouteAfterFallback
    \/ RouteStore
    \/ RouteInsert
    \/ BatchPost(StoreAreaLists, StoreHours)
    \/ BatchArea(StoreProfiles, StoreLengths, StoreWeathers)
    \/ BatchDelete
    \/ BatchInsert
    \/ BatchRespond

SpecStore == InitStore /\ [][NextStore]_vars

----------------------------------------------------------------------------
(* AutoRetrainingPipeline *)

\* retrainingSchedule.regularInterval: 7 days in hours
RegularInterval == 168

\* values of Math.random(), which lies in [0, 1)
Randoms == {Num(0), R(999, 1000)}

\* a job of retrainingJobs together with the position and the locals of its
\* executeRetrainingJob: at is the await the execution is suspended in
Job(id, reason) ==
    [id |-> id, status |-> "queued", startTime |-> now, endTime |-> 0,
     triggerReason |-> reason, validationResults |-> FALSE,
     deploymentStatus |-> "", error |-> "",
     at |-> "start", accuracy |-> NULL]

ActiveJobs(jobs) ==
    {k \in 1..Len(jobs) : jobs[k].status = "running" \/ jobs[k].status = "queued"}

\* the first statements of executeRetrainingJob, up to its first await
StartJob(job) == [job EXCEPT !.status = "running", !.at = "validateTrainingData"]

\* the catch block of executeRetrainingJob
FailJob(job, message) ==
    [job EXCEPT !.status = "failed", !.endTime = now, !.error = message, !.at = "done"]

\* the reasons checkTriggerConditions retrains for
ConditionReasons == {"performance_degradation", "critical_alerts"}

\* the reasons the dashboard passes: params.reason || "manual"
DashboardReasons == {"manual", "scheduled"}

\* triggerRetraining(reason): the new job is queued and its execution runs up
\* to its first await before the call returns
triggerRetraining_noActiveCheck(reason) ==
    /\ IF ~isRetrainingEnabled
       THEN /\ jobId' = 0
            /\ UNCHANGED retrainingJobs
       ELSE /\ Len(retrainingJobs) < MaxJobs
            /\ jobId' = Len(retrainingJobs) + 1
            /\ retrainingJobs' =
                  Append(retrainingJobs, StartJob(Job(Len(retrainingJobs) + 1, reason)))
    /\ UNCHANGED <<isRetrainingEnabled, lastRegularRetraining>>

triggerRetraining(reason) ==
    /\ IF ~isRetrainingEnabled \/ ActiveJobs(retrainingJobs) # {}
       THEN /\ jobId' = 0
            /\ UNCHANGED retrainingJobs
       ELSE /\ Len(retrainingJobs) < MaxJobs
            /\ jobId' = Len(retrainingJobs) + 1
            /\ retrainingJobs' =
                  Append(retrainingJobs, StartJob(Job(Len(retrainingJobs) + 1, reason)))
    /\ UNCHANGED <<isRetrainingEnabled, lastRegularRetraining>>

\* the hourly timer: checkScheduledRetraining
CheckScheduledRetraining ==
    /\ now - lastRegularRetraining >= RegularInterval
    /\ triggerRetraining("scheduled")
    /\ UNCHANGED <<now, coreVars, advVars, routeVars>>

\* the 15-minute timer: checkTriggerConditions finds the error rate above the
\* threshold, or more than two critical alerts
CheckTriggerConditions ==
    /\ \E reason \in ConditionReasons :
          triggerRetraining(reason)
    /\ UNCHANGED <<now, coreVars, advVars, routeVars>>

\* the dashboard API: action "trigger_retraining", reason || "manual"
DashboardTrigger ==
    /\ \E reason \in DashboardReasons : triggerRetraining(reason)
    /\ UNCHANGED <<now, coreVars, advVars, routeVars>>

\* the dashboard API: action "toggle_retraining"
setRetrainingEnabled ==
    /\ \E enabled \in BOOLEAN : isRetrainingEnabled' = enabled
    /\ UNCHANGED <<retrainingJobs, lastRegularRetraining, jobId>>
    /\ UNCHANGED <<now, coreVars, advVars, routeVars>>

\* cancelRetrainingJob(id) for the id of a job; an unknown id changes nothing
cancelRetrainingJob ==
    /\ \E k \in 1..Len(retrainingJobs) :
          /\ retrainingJobs[k].status \notin {"completed", "failed"}
          /\ retrainingJobs' =
                [retrainingJobs EXCEPT ![k] = [@ EXCEPT !.status = "cancelled",
                                                        !.endTime = now]]
    /\ UNCHANGED <<isRetrainingEnabled, lastRegularRetraining, jobId>>
    /\ UNCHANGED <<now, coreVars, advVars, routeVars>>

\* validateTrainingData has returned: throw when the data is not valid, else
\* start trainNewModel
ExecDataValidated ==
    /\ \E k \in 1..Len(retrainingJobs), random \in Randoms, missing \in BOOLEAN,
          outliers \in BOOLEAN :
          LET job == retrainingJobs[k]
              qualityScore == RAdd(R(85, 100), RMul(random, R(1, 10)))
              severities == (IF missing THEN {"medium"} ELSE {})
                               \cup (IF outliers THEN {"low"} ELSE {})
              isValid == RLt(R(8, 10), qualityScore) /\ "high" \notin severities
          IN  /\ job.at = "validateTrainingData"
              /\ retrainingJobs' =
                    [retrainingJobs EXCEPT ![k] =
                        IF isValid THEN [job EXCEPT !.at = "trainNewModel"]
                        ELSE FailJob(job, "Data validation failed")]
    /\ UNCHANGED <<isRetrainingEnabled, lastRegularRetraining, jobId>>
    /\ UNCHANGED <<now, coreVars, advVars, routeVars>>

\* the 10 seconds of trainNewModel are over: its metrics, then validateNewModel
ExecTrained ==
    /\ \E k \in 1..Len(retrainingJobs), random \in Randoms :
          LET job == retrainingJobs[k]
          IN  /\ job.at = "trainNewModel"
              /\ retrainingJobs' =
                    [retrainingJobs EXCEPT ![k] =
                        [job EXCEPT !.at = "validateNewModel",
                                    !.accuracy = RAdd(R(88, 100),
                                                      RMul(random, R(8, 100)))]]
    /\ UNCHANGED <<isRetrainingEnabled, lastRegularRetraining, jobId>>
    /\ UNCHANGED <<now, coreVars, advVars, routeVars>>

\* validateNewModel has returned: the results are stored in the job; throw
\* when a quality check failed, else start deployNewModel
ExecModelValidated ==
    /\ \E k \in 1..Len(retrainingJobs), random \in Randoms :
          LET job == retrainingJobs[k]
              accuracyImprovement == RAdd(R(3, 100), RMul(random, R(5, 100)))
              passedValidation ==
                  /\ RLt(R(8, 10), job.accuracy)
                  /\ RLt(R(-5, 100), accuracyImprovement)
              validated == [job EXCEPT !.validationResults = TRUE]
          IN  /\ job.at = "validateNewModel"
              /\ retrainingJobs' =
                    [retrainingJobs EXCEPT ![k] =
                        IF passedValidation
                        THEN [validated EXCEPT !.at = "deployNewModel"]
                        ELSE FailJob(validated, "Model validation failed")]
    /\ UNCHANGED <<isRetrainingEnabled, lastRegularRetraining, jobId>>
    /\ UNCHANGED <<now, coreVars, advVars, routeVars>>

\* the 2 seconds of deployNewModel are over: the job is marked deployed and
\* completed, and a scheduled job moves the schedule
ExecDeployed ==
    /\ \E k \in 1..Len(retrainingJobs) :
          LET job == retrainingJobs[k]
          IN  /\ job.at = "deployNewModel"
              /\ retrainingJobs' =
                    [retrainingJobs EXCEPT ![k] =
                        [job EXCEPT !.deploymentStatus = "deployed",
                                    !.status = "completed",
                                    !.endTime = now,
                                    !.at = "done"]]
              /\ lastRegularRetraining' =
                    IF job.triggerReason = "scheduled" THEN now
                    ELSE lastRegularRetraining
    /\ UNCHANGED <<isRetrainingEnabled, jobId>>
    /\ UNCHANGED <<now, coreVars, advVars, routeVars>>

\* the pipeline right after its construction, or a week later
InitPipeline ==
    /\ now = At(10, 15, 11)
    /\ InitEngine
    /\ table = << >>
    /\ retrainingJobs = << >>
    /\ isRetrainingEnabled = TRUE
    /\ lastRegularRetraining \in {now, now - RegularInterval}
    /\ jobId = 0

NextPipeline ==
    \/ CheckScheduledRetraining
    \/ CheckTriggerConditions
    \/ DashboardTrigger
    \/ setRetrainingEnabled
    \/ cancelRetrainingJob
    \/ ExecDataValidated
    \/ ExecTrained
    \/ ExecModelValidated
    \/ ExecDeployed

SpecPipeline == InitPipeline /\ [][NextPipeline]_vars

----------------------------------------------------------------------------
(* Properties of generatePredictions *)

Settled == pc = "idle" /\ outcome.status # "none"

ValidArea == areaInfo.district # NullStr

InRange(lo, x, hi) == RLe(lo, x) /\ RLe(x, hi)

Forecasts == {predictions[k] : k \in 1..Len(predictions)}
                 \cup {outcome.value[k] : k \in 1..Len(outcome.value)}

\* C1: a call with at least 24 readings, a district and hours_ahead = N >= 1
\* returns exactly N forecasts whose horizons are 1, 2, ..., N in that order.
C1_ExactlyNForecastsInOrder ==
    (Settled /\ Len(historicalData) >= 24 /\ ValidArea /\ hoursAhead >= 1)
        => /\ outcome.status = "returned"
           /\ Len(outcome.value) = hoursAhead
           /\ \A k \in 1..Len(outcome.value) :
                  outcome.value[k].prediction_horizon_hours = k

C1_Witness ==
    /\ Settled /\ outcome.status = "returned"
    /\ hoursAhead = MaxHours /\ Len(outcome.value) = MaxHours
    /\ outcome.value[MaxHours].prediction_horizon_hours = MaxHours

\* C2: every forecast has predicted_aqi in [0, 500] and predicted_pm25,
\* predicted_pm10 >= 0, also when the weighted sum is negative or above 500.
C2_ForecastValuesClamped ==
    \A f \in Forecasts :
        /\ InRange(Num(0), f.predicted_aqi, Num(500))
        /\ RLe(Num(0), f.predicted_pm25)
        /\ RLe(Num(0), f.predicted_pm10)

C2_NegativeSum ==
    \E f \in Forecasts :
        /\ RLt(ensemble(f.features_used, f.prediction_horizon_hours).aqi, Num(0))
        /\ f.predicted_aqi = Num(0)

C2_Witness ==
    \E f \in Forecasts :
        /\ RLt(Num(500), ensemble(f.features_used, f.prediction_horizon_hours).aqi)
        /\ RLt(ensemble(f.features_used, f.prediction_horizon_hours).pm10, Num(0))
        /\ f.predicted_aqi = Num(500) /\ f.predicted_pm10 = Num(0)

\* C3: every forecast has confidence_score in [0.1, 1.0].
C3_ConfidenceInRange ==
    \A f \in Forecasts : InRange(R(1, 10), f.confidence_score, Num(1))

C3_Witness ==
    /\ \E f \in Forecasts : f.confidence_score = R(13, 100)
    /\ \E f \in Forecasts : RLt(R(1, 2), f.confidence_score)

\* C4: with fewer than 24 readings the call raises the insufficient-history
\* error before any hour is computed and produces no forecast; with 24
\* readings it does not raise that error.
C4_InsufficientHistoryAt23Not24 ==
    /\ (Settled /\ Len(historicalData) < 24)
          => /\ outcome = Threw(InsufficientHistoryError)
             /\ predictions = << >>
    /\ (Settled /\ Len(historicalData) >= 24)
          => outcome.error # InsufficientHistoryError
    /\ pc = "loop" => Len(historicalData) >= 24

C4_Witness ==
    /\ Settled /\ Len(historicalData) = 23
    /\ outcome.status = "threw" /\ outcome.error = InsufficientHistoryError

\* C5: a call with hours_ahead <= 0 fails with an InvalidInput error.
C5_NonPositiveHorizonRaises ==
    (Settled /\ hoursAhead <= 0 /\ Len(historicalData) >= 24)
        => outcome.status = "threw"

\* C6: a call never returns fewer forecasts than hours_ahead; when an hour
\* fails the whole call raises and returns nothing.
C6_AllHoursOrRaise ==
    /\ (Settled /\ outcome.status = "returned")
          => /\ Len(outcome.value) >= hoursAhead
             /\ \A k \in 1..hoursAhead :
                    outcome.value[k].prediction_horizon_hours = k
    /\ (Settled /\ outcome.status = "threw") => outcome.value = << >>
    /\ (Settled /\ Len(historicalData) >= 24 /\ hoursAhead >= 1 /\ ~ValidArea)
          => outcome.status = "threw"

C6_Witness ==
    /\ Settled /\ hoursAhead >= 2 /\ Len(historicalData) >= 24
    /\ outcome = Threw("TypeError")

\* C8: within a call (fixed weather), consecutive forecasts of the same
\* season up to horizon 48 have non-increasing confidence.
C8_ConfidenceNonIncreasing ==
    \A k \in 1..(Len(predictions) - 1) :
        (k + 1 <= 48
           /\ predictions[k].features_used.season
                  = predictions[k + 1].features_used.season)
        => RLe(predictions[k + 1].confidence_score, predictions[k].confidence_score)

C8_Witness ==
    /\ Len(predictions) >= 48
    /\ \E k \in 1..47 :
          /\ predictions[k].features_used.season
                 = predictions[k + 1].features_used.season
          /\ RLt(predictions[k + 1].confidence_score, predictions[k].confidence_score)
    /\ predictions[47].features_used.season = predictions[48].features_used.season
    /\ predictions[47].confidence_score = predictions[48].confidence_score

----------------------------------------------------------------------------
(* Properties of several calls *)

SameInputs(a, b) ==
    /\ a.hist = b.hist /\ a.weather = b.weather /\ a.area = b.area
    /\ a.at = b.at /\ ~a.moved /\ ~b.moved

\* C7: two calls with identical history, weather, area and hours_ahead at
\* the same frozen clock return identical sequences, whatever calls ran
\* in between.
C7_Deterministic ==
    \A i, j \in 1..Len(callLog) :
        (SameInputs(callLog[i], callLog[j]) /\ callLog[i].n = callLog[j].n)
            => callLog[i].outcome = callLog[j].outcome

C7_Witness ==
    \E i, m, j \in 1..Len(callLog) :
        /\ i < m /\ m < j
        /\ SameInputs(callLog[i], callLog[j]) /\ callLog[i].n = callLog[j].n
        /\ callLog[m].area # callLog[i].area
        /\ callLog[i].outcome.status = "returned"
        /\ Len(callLog[i].outcome.value) = 2
        /\ callLog[j].outcome = callLog[i].outcome

PrefixAgree(u, v) ==
    \A k \in 1..Len(u) : k <= Len(v) => u[k] = v[k]

ArgumentsKept ==
    pc = "loop" => /\ historicalData' = historicalData
                   /\ weatherData' = weatherData
                   /\ areaInfo' = areaInfo

\* C9: at a frozen clock the k-th forecast does not depend on hours_ahead
\* (the forecasts of a shorter call are a prefix of those of a longer one),
\* and a running call leaves history, weather and area unmodified.
C9_PureMapOverHorizon ==
    /\ [](\A i, j \in 1..Len(callLog) :
             (SameInputs(callLog[i], callLog[j])
                /\ callLog[i].outcome.status = "returned"
                /\ callLog[j].outcome.status = "returned")
             => PrefixAgree(callLog[i].outcome.value, callLog[j].outcome.value))
    /\ [][ArgumentsKept]_vars

C9_Witness ==
    \E i, j \in 1..Len(callLog) :
        /\ SameInputs(callLog[i], callLog[j])
        /\ callLog[i].n = 1 /\ callLog[j].n = 2
        /\ Len(callLog[i].outcome.value) = 1 /\ Len(callLog[j].outcome.value) = 2
        /\ callLog[i].outcome.value[1] = callLog[j].outcome.value[1]
        /\ callLog[j].outcome.value[2] # callLog[j].outcome.value[1]

----------------------------------------------------------------------------
(* Properties of generateAdvancedPredictions *)

AdvSettled == apc = "idle" /\ advOutcome.status # "none"

\* the enhancement raised inside enhanceWithAI and was caught there
EnhancementRaised ==
    \/ aiResponse.kind \in RaisingKinds
    \/ aiResponse.kind \in {"not_array", "json"}
          /\ applyAIEnhancementsThrows(basePredictions, aiResponse)

\* an element that is not an object with numeric (or absent) deltas
MalformedAdjustment(a) ==
    \/ a.kind = "null"
    \/ \E v \in {a.aqi_adjustment, a.pm25_adjustment, a.confidence_adjustment} :
          v.type = "string"

\* the completion call failed: it rejected, or what it returned is not
\* the JSON the engine asked for
EnhancementFailed ==
    \/ aiResponse.kind \in RaisingKinds \cup {"not_array"}
    \/ /\ aiResponse.kind = "json"
       /\ \E j \in 1..Len(aiResponse.adjustments) :
             MalformedAdjustment(aiResponse.adjustments[j])

\* C10: when the enhancement call fails (the request rejects, or the response
\* is malformed or cannot be parsed), generateAdvancedPredictions returns
\* normally with exactly the forecasts of the base call; the failure is
\* never raised to the caller.
C10_EnhancementFailureFallsBack ==
    (AdvSettled /\ EnhancementFailed)
        => /\ advOutcome.status = "returned"
           /\ outcome.status = "returned"
           /\ advOutcome.value = outcome.value

\* The part of C10 the catch block of enhanceWithAI does provide: a failure
\* that raises is caught, the forecasts of the base call are returned and
\* the insights text reports the failure.
EnhancementErrorFallsBack ==
    (AdvSettled /\ EnhancementRaised)
        => /\ advOutcome.status = "returned"
           /\ outcome.status = "returned"
           /\ advOutcome.value = outcome.value
           /\ advOutcome.aiInsights = UnavailableInsights

\* No failure of the completion call is raised to the caller: the engine
\* rejects only when the base predictor itself does.
EnhancementNeverRaises ==
    (AdvSettled /\ advOutcome.status = "threw")
        => outcome.status = "threw" /\ aiResponse = NoResponse

----------------------------------------------------------------------------
(* Properties of the feature extraction *)

\* the field is null in every one of the 24 newest readings
AllNull(field) ==
    \A i \in 1..Len(historicalData) : i <= 24 => IsNull(historicalData[i][field])

\* Math.round(x * 10) / 10
Round1(x) == RMul(MathRound(RMul(x, Num(10))), R(1, 10))

CompletesNormally ==
    (Settled /\ Len(historicalData) >= 24 /\ ValidArea /\ hoursAhead >= 1)
        => outcome.status = "returned"

\* C11 as stated: missing values are never an error, and a field that is null
\* in all 24 newest readings has average and trend 0, so that the forecast of
\* that pollutant is 0.
C11_NullFieldForecastZero ==
    /\ CompletesNormally
    /\ \A f \in Forecasts :
          /\ AllNull("aqi") => f.predicted_aqi = Num(0)
          /\ AllNull("pm25") => f.predicted_pm25 = Num(0)
          /\ AllNull("pm10") => f.predicted_pm10 = Num(0)

\* C11 amended: missing values are never an error; a field that is null in
\* all 24 newest readings has average 0 (and trend 0, for aqi and pm25); the
\* aqi and pm25 forecasts are then 0, while the pm10 forecast is what the
\* pm25 trend contributes through the linear component.
C11_NullFieldsContributeZero ==
    /\ CompletesNormally
    /\ \A f \in Forecasts :
          LET x  == f.features_used
              h  == f.prediction_horizon_hours
              tf == IF h < 24 THEN R(h, 24) ELSE Num(1)
          IN  /\ AllNull("aqi") =>
                    /\ x.aqi_avg_24h = Num(0) /\ x.aqi_trend_3h = Num(0)
                    /\ f.predicted_aqi = Num(0)
              /\ AllNull("pm25") =>
                    /\ x.pm25_avg_24h = Num(0) /\ x.pm25_trend_3h = Num(0)
                    /\ f.predicted_pm25 = Num(0)
              /\ AllNull("pm10") =>
                    /\ x.pm10_avg_24h = Num(0)
                    /\ f.predicted_pm10 =
                          RMax(Num(0), Round1(RMul(R(3, 10),
                              RMul(RMul(x.pm25_trend_3h, R(12, 10)), tf))))
              /\ AllNull("no2") => x.no2_avg_24h = Num(0)
              /\ (AllNull("pm10") /\ AllNull("pm25")) => f.predicted_pm10 = Num(0)

C11_Witness ==
    /\ Settled /\ outcome.status = "returned" /\ Len(outcome.value) = 2
    /\ AllNull("pm10") /\ ~AllNull("pm25")
    /\ \E i \in 25..Len(historicalData) : ~IsNull(historicalData[i].pm10)
    /\ outcome.value[1].features_used.pm10_avg_24h = Num(0)
    /\ outcome.value[1].predicted_pm10 = R(43, 10)

\* the keyword occurs in the district, letters compared without regard to case
SameLetter(c, k) ==
    \/ c = k
    \/ \E i \in 1..Len(UpperCase) : UpperCase[i] = c /\ LowerCase[i] = k

Occurs(keyword, district) ==
    \E off \in 0..(Len(district) - Len(keyword)) :
        \A j \in 1..Len(keyword) : SameLetter(district[off + j], keyword[j])

Keywords ==
    <<[type |-> "central", word |-> <<"c","e","n","t","r","a","l">>],
      [type |-> "north",   word |-> <<"n","o","r","t","h">>],
      [type |-> "south",   word |-> <<"s","o","u","t","h">>],
      [type |-> "east",    word |-> <<"e","a","s","t">>]>>

\* C12: area_type is the first of "central", "north", "south", "east" (in that
\* order) that occurs in the district, case-insensitively, and "west" when
\* none does: "South Zone" is south, "Unknown" is west, "North-East" is north.
C12_AreaTypeByPriority ==
    \A f \in Forecasts :
        LET t == f.features_used.area_type
            d == areaInfo.district
        IN  /\ \A i \in 1..Len(Keywords) :
                  (Occurs(Keywords[i].word, d)
                     /\ \A j \in 1..(i - 1) : ~Occurs(Keywords[j].word, d))
                  => t = Keywords[i].type
            /\ (\A i \in 1..Len(Keywords) : ~Occurs(Keywords[i].word, d))
                  => t = "west"
            /\ d = Str_SouthZone => t = "south"
            /\ d = Str_Unknown => t = "west"
            /\ d = Str_NorthEast => t = "north"
            /\ d = Str_EastCentral => t = "central"
            /\ d = Str_SOUTHEAST => t = "south"
            /\ d = Str_Eastern => t = "east"
            /\ d = Str_Empty => t = "west"

C12_Witness ==
    /\ Settled /\ outcome.status = "returned" /\ Len(outcome.value) >= 1
    /\ areaInfo.district = Str_EastCentral
    /\ Occurs(Keywords[4].word, areaInfo.district)
    /\ outcome.value[1].features_used.area_type = "central"

----------------------------------------------------------------------------
(* Properties of POST /api/predictions/generate *)

\* "hoursAhead: Number of hours to predict (default: 24, max: 48)"
DocumentedMaxHours == 48

\* the rows the request has put into the table
InsertedRows == SelectSeq(table, LAMBDA r : r # StaleRow)

\* C13: a request generates and stores at most 48 predictions, whatever
\* hoursAhead it asks for, on the advanced path and on the fallback path.
C13_AtMost48PerRequest ==
    /\ Len(routePredictions) <= DocumentedMaxHours
    /\ Len(InsertedRows) <= DocumentedMaxHours
    /\ answer.predictions_generated <= DocumentedMaxHours

\* the fallback path alone keeps the documented maximum
FallbackAtMost48 ==
    rpc = "fallback" => hoursAhead <= DocumentedMaxHours /\ Len(predictions) <= DocumentedMaxHours

\* the advanced path stores up to 72
RouteAtMost72 ==
    Len(routePredictions) <= RouteAdvancedCap /\ Len(InsertedRows) <= RouteAdvancedCap

----------------------------------------------------------------------------
(* Properties of the confidence, the trend and the average *)

\* round2(clamp(max(0.3, 1 - h/48) x wind x humidity x season)), the product
\* taken in binary64
ConfidenceOf(h, extremeWind, extremeHumidity, season) ==
    LET horizon == IF 48 - h > 14 THEN R(48 - h, 48) ELSE R(3, 10)
        wind    == IF extremeWind THEN R(8, 10) ELSE Num(1)
        humid   == IF extremeHumidity THEN R(9, 10) ELSE Num(1)
        seas    == CASE season = "winter" -> R(85, 100)
                     [] season = "summer" -> R(8, 10)
                     [] season = "monsoon" -> R(6, 10)
                     [] OTHER -> R(9, 10)
        c       == RMul(RMul(RMul(horizon, wind), humid), seas)
        clamped == IF RLt(c, R(1, 10)) THEN R(1, 10)
                   ELSE IF RLt(Num(1), c) THEN Num(1) ELSE c
        cents   == MathRound(RMul(clamped, Num(100)))
    IN  IF <<h, extremeWind, extremeHumidity, season>> \in Binary64BelowTie
        THEN RMul(RSub(cents, Num(1)), R(1, 100))
        ELSE RMul(cents, R(1, 100))

ExtremeHumidity(f) ==
    RLt(Num(90), f.features_used.humidity) \/ RLt(f.features_used.humidity, Num(20))

\* the snapshot reports a wind speed above 10 or below 0.5
SnapshotWindExtreme ==
    /\ ~IsNull(weatherData.wind_speed)
    /\ RLt(Num(10), weatherData.wind_speed) \/ RLt(weatherData.wind_speed, R(5, 10))

\* C14: for every snapshot whose wind_speed is > 10 or < 0.5, a calm 0
\* included, the confidence of every forecast carries the x0.8 factor.
C14_ExtremeWindFactor ==
    \A f \in Forecasts :
        SnapshotWindExtreme
            => f.confidence_score =
                  ConfidenceOf(f.prediction_horizon_hours, TRUE, ExtremeHumidity(f),
                               f.features_used.season)

\* what the code does provide: the factor is applied for every extreme wind
\* speed other than 0, and for no other
ExtremeWindFactorExceptCalm ==
    \A f \in Forecasts :
        f.confidence_score =
            ConfidenceOf(f.prediction_horizon_hours,
                         SnapshotWindExtreme /\ weatherData.wind_speed # Num(0),
                         ExtremeHumidity(f), f.features_used.season)

\* the three newest readings' values of the field, null or not
Newest(field, i) == historicalData[i][field]

NonNullAmongThree(field) == {i \in 1..3 : ~IsNull(Newest(field, i))}

TrendOf(f, field) ==
    IF field = "aqi" THEN f.features_used.aqi_trend_3h ELSE f.features_used.pm25_trend_3h

\* C15 as stated: the trend is history[0] - history[2], 0 with fewer than two
\* non-null values, and a null at index 0 or 2 does not bring in another pair.
C15_TrendFixedPair ==
    \A f \in Forecasts : \A field \in {"aqi", "pm25"} :
        /\ ({1, 3} \subseteq NonNullAmongThree(field))
              => TrendOf(f, field) = RSub(Newest(field, 1), Newest(field, 3))
        /\ Cardinality(NonNullAmongThree(field)) < 2 => TrendOf(f, field) = Num(0)
        /\ ~({1, 3} \subseteq NonNullAmongThree(field)) => TrendOf(f, field) = Num(0)

\* C15 amended: the trend is the first non-null value minus the last non-null
\* value among the three newest readings (history[0] - history[2] when both
\* are there), and 0 with fewer than two non-null values.
C15_TrendFirstMinusLastNonNull ==
    \A f \in Forecasts : \A field \in {"aqi", "pm25"} :
        LET S == NonNullAmongThree(field)
        IN  IF Cardinality(S) < 2 THEN TrendOf(f, field) = Num(0)
            ELSE LET first == CHOOSE i \in S : \A j \in S : i <= j
                     last  == CHOOSE i \in S : \A j \in S : j <= i
                 IN  /\ TrendOf(f, field) = RSub(Newest(field, first), Newest(field, last))
                     /\ ({1, 3} \subseteq S)
                           => TrendOf(f, field) = RSub(Newest(field, 1), Newest(field, 3))

C15_Witness ==
    /\ Settled /\ outcome.status = "returned" /\ Len(outcome.value) >= 1
    /\ IsNull(Newest("aqi", 1)) /\ ~IsNull(Newest("aqi", 2)) /\ ~IsNull(Newest("aqi", 3))
    /\ outcome.value[1].features_used.aqi_trend_3h = Num(-380)
    /\ outcome.value[1].features_used.aqi_trend_3h
           = RSub(Newest("aqi", 2), Newest("aqi", 3))

\* sum and count of the non-null values of the field among readings 1..n
RECURSIVE FieldSum(_, _)
FieldSum(field, n) ==
    IF n = 0 THEN Num(0)
    ELSE IF IsNull(historicalData[n][field]) THEN FieldSum(field, n - 1)
    ELSE RAdd(FieldSum(field, n - 1), historicalData[n][field])

FieldCount(field, n) == Cardinality({i \in 1..n : ~IsNull(historicalData[i][field])})

AverageOf(f, field) ==
    CASE field = "aqi" -> f.features_used.aqi_avg_24h
      [] field = "pm25" -> f.features_used.pm25_avg_24h
      [] field = "pm10" -> f.features_used.pm10_avg_24h
      [] OTHER -> f.features_used.no2_avg_24h

\* C16: the 24-hour average of a field is the mean of the non-null values
\* among the 24 newest readings only, and 0 when there is none.
C16_AverageOfNewest24 ==
    \A f \in Forecasts : \A field \in {"aqi", "pm25", "pm10", "no2"} :
        LET n == Min(24, Len(historicalData))
            c == FieldCount(field, n)
        IN  /\ c = 0 => AverageOf(f, field) = Num(0)
            /\ c > 0 => RMul(AverageOf(f, field), Num(c)) = FieldSum(field, n)

C16_Witness ==
    /\ Settled /\ outcome.status = "returned" /\ Len(outcome.value) >= 1
    /\ Len(historicalData) > 24
    /\ \E i \in 25..Len(historicalData) : ~IsNull(historicalData[i].aqi)
    /\ FieldCount("aqi", 24) = 2
    /\ outcome.value[1].features_used.aqi_avg_24h = Num(290)

----------------------------------------------------------------------------
(* Properties of the ensemble and its components *)

Clamp(x, lo, hi) == IF RLt(x, lo) THEN lo ELSE IF RLt(hi, x) THEN hi ELSE x

Linear(f) == linearTrendPrediction(f.features_used, f.prediction_horizon_hours)

Seasonal(f) == seasonalPrediction(f.features_used, f.prediction_horizon_hours)

WeatherBased(f) == weatherBasedPrediction(f.features_used, f.prediction_horizon_hours)

\* C17: predicted_aqi = clamp(round(0.3 linear + 0.4 seasonal + 0.3 weather),
\* 0, 500), the weights sum to 1, the result is an integer, and when the
\* three components agree on v it is clamp(round(v), 0, 500).
C17_WeightedEnsembleAqi ==
    /\ RAdd(RAdd(weights.linear, weights.seasonal), weights.weather) = Num(1)
    /\ \A f \in Forecasts :
          LET l == Linear(f).aqi
              s == Seasonal(f).aqi
              w == WeatherBased(f).aqi
              sum == RAdd(RAdd(RMul(R(3, 10), l), RMul(R(4, 10), s)), RMul(R(3, 10), w))
          IN  /\ f.predicted_aqi = Clamp(MathRound(sum), Num(0), Num(500))
              /\ f.predicted_aqi[2] = 1
              /\ (l = s /\ s = w)
                    => f.predicted_aqi = Clamp(MathRound(l), Num(0), Num(500))

C17_Witness ==
    /\ Settled /\ outcome.status = "returned" /\ Len(outcome.value) = 2
    /\ \A k \in 1..2 :
          LET f == outcome.value[k]
          IN  /\ f.features_used.aqi_trend_3h = Num(0)
              /\ RLt(Num(100), Linear(f).aqi)
              /\ Seasonal(f).aqi = Linear(f).aqi
              /\ WeatherBased(f).aqi = Linear(f).aqi
              /\ f.predicted_aqi = MathRound(Linear(f).aqi)

TrendFactor(h) == IF h < 24 THEN R(h, 24) ELSE Num(1)

\* C18: the linear component is base + trend x min(h/24, 1) for aqi and pm25
\* and pm10_avg + pm25_trend x 1.2 x min(h/24, 1) for pm10; the trend term
\* grows by trend/24 per hour up to h = 24 and is the same for every h >= 24.
C18_LinearTrendComponent ==
    /\ \A f \in Forecasts :
          LET x  == f.features_used
              tf == TrendFactor(f.prediction_horizon_hours)
          IN  /\ Linear(f).aqi = RAdd(x.aqi_avg_24h, RMul(x.aqi_trend_3h, tf))
              /\ Linear(f).pm25 = RAdd(x.pm25_avg_24h, RMul(x.pm25_trend_3h, tf))
              /\ Linear(f).pm10 =
                    RAdd(x.pm10_avg_24h, RMul(RMul(x.pm25_trend_3h, R(12, 10)), tf))
    /\ \A k \in 1..(Len(predictions) - 1) :
          LET f == predictions[k]
              g == predictions[k + 1]
          IN  /\ k + 1 <= 24 =>
                    /\ RSub(Linear(g).aqi, Linear(f).aqi)
                          = RMul(f.features_used.aqi_trend_3h, R(1, 24))
                    /\ RSub(Linear(g).pm10, Linear(f).pm10)
                          = RMul(f.features_used.pm25_trend_3h, R(12, 240))
              /\ k >= 24 => Linear(g) = Linear(f)

C18_Witness ==
    /\ Len(predictions) >= 26
    /\ predictions[1].features_used.pm25_trend_3h = Num(284)
    /\ predictions[1].features_used.aqi_trend_3h = Num(428)
    /\ Linear(predictions[1]).pm10 # Linear(predictions[2]).pm10
    /\ Linear(predictions[24]).pm10 = Linear(predictions[26]).pm10
    /\ Linear(predictions[24]).pm10
          = RAdd(predictions[24].features_used.pm10_avg_24h, R(284 * 12, 10))

ExtremeWind(f) ==
    RLt(Num(10), f.features_used.wind_speed) \/ RLt(f.features_used.wind_speed, R(5, 10))

\* C19: the horizon term is max(0.3, 1 - h/48), so that from h = 34 on the
\* confidence no longer depends on h (fixed weather and season), no confidence
\* is below the one of the floor, and the confidence at h = 48 is strictly
\* lower than at h = 1 for the same weather and season.
C19_HorizonFloor ==
    /\ \A f \in Forecasts :
          f.confidence_score
             = ConfidenceOf(f.prediction_horizon_hours, ExtremeWind(f), ExtremeHumidity(f),
                            f.features_used.season)
    /\ \A f \in Forecasts :
          RLe(ConfidenceOf(48, ExtremeWind(f), ExtremeHumidity(f), f.features_used.season),
              f.confidence_score)
    /\ \A j, k \in 1..Len(predictions) :
          (34 <= j /\ j < k
             /\ predictions[j].features_used.season = predictions[k].features_used.season)
          => predictions[k].confidence_score = predictions[j].confidence_score
    /\ (Len(predictions) >= 48
          /\ predictions[1].features_used.season = predictions[48].features_used.season)
          => RLt(predictions[48].confidence_score, predictions[1].confidence_score)

C19_Witness ==
    /\ Len(predictions) >= MaxHours
    /\ predictions[1].features_used.season = predictions[MaxHours].features_used.season
    /\ predictions[33].confidence_score # predictions[34].confidence_score
    /\ predictions[34].confidence_score = predictions[MaxHours].confidence_score
    /\ RLt(predictions[48].confidence_score, predictions[1].confidence_score)

RushHours == (7..10) \cup (18..21)

NightHours == 0..5

\* day of the week of an hour count that starts on a Wednesday; 0 is Sunday
WeekdayOf(t) == ((t \div 24) + 3) % 7

\* C20: the hourly multiplier is defined for every hour 0..23, lies in
\* [0.6, 1.5], is > 1 in the rush hours 7-10 and 18-21, < 1 in the hours 0-5
\* and exactly 1.0 for every other hour; the weekend multiplier is 0.85 exactly
\* on Saturday and Sunday, else 1.0.
C20_HourlyAndWeekendMultiplier ==
    /\ \A hr \in 0..23 : \A p \in {"aqi", "pm25", "pm10"} :
          LET m == getHourlyMultiplier(hr)[p]
          IN  /\ RLe(R(6, 10), m) /\ RLe(m, R(15, 10))
              /\ hr \in RushHours => RLt(Num(1), m)
              /\ hr \in NightHours => RLt(m, Num(1))
              /\ hr \notin RushHours \cup NightHours => m = Num(1)
    /\ \A f \in Forecasts :
          LET x   == f.features_used
              hr  == x.hour_of_day
              day == WeekdayOf(now + f.prediction_horizon_hours)
              wk  == IF day \in {0, 6} THEN R(85, 100) ELSE Num(1)
          IN  /\ hr = (now + f.prediction_horizon_hours) % 24
              /\ x.is_weekend <=> day \in {0, 6}
              /\ \A p \in {"aqi", "pm25", "pm10"} :
                    LET avg == IF p = "aqi" THEN x.aqi_avg_24h
                               ELSE IF p = "pm25" THEN x.pm25_avg_24h
                               ELSE x.pm10_avg_24h
                    IN  Seasonal(f)[p] =
                           RMul(RMul(RMul(avg, seasonalMultipliers[x.season][p]),
                                     getHourlyMultiplier(hr)[p]), wk)
              /\ hr \notin RushHours \cup NightHours =>
                    Seasonal(f).aqi
                       = RMul(RMul(x.aqi_avg_24h, seasonalMultipliers[x.season].aqi), wk)

C20_Witness ==
    /\ Len(predictions) >= 30
    /\ predictions[2].features_used.hour_of_day = 22
    /\ predictions[2].features_used.is_weekend
    /\ Seasonal(predictions[2]).aqi
          = RMul(predictions[2].features_used.aqi_avg_24h, R(11 * 85, 1000))
    /\ \E k \in 1..Len(predictions) :
          /\ ~predictions[k].features_used.is_weekend
          /\ predictions[k].features_used.hour_of_day = 8

----------------------------------------------------------------------------
(* The example scenario *)

\* 30 constant readings, mild weather, hours_ahead = 1, and a target hour on
\* a weekday of the post-monsoon months that is not a rush hour
ExampleCall ==
    /\ Settled /\ outcome.status = "returned"
    /\ historicalData = MkHistory(PFlat, 30)
    /\ weatherData = WMild
    /\ hoursAhead = 1
    /\ getHours(now + 1) \notin RushHours
    /\ getDay(now + 1) \notin {0, 6}
    /\ getMonth(now + 1) + 1 \in {10, 11}

\* C21 as stated: in the example scenario at any non-rush, non-weekend,
\* post-monsoon hour predicted_aqi is within a few points of 100 and the
\* confidence is 0.88.
C21_ExampleScenario ==
    ExampleCall =>
        /\ InRange(Num(95), outcome.value[1].predicted_aqi, Num(105))
        /\ outcome.value[1].confidence_score = R(88, 100)

\* C21 amended: in the example scenario the confidence is 0.88; predicted_aqi
\* is exactly 100 at a target hour outside the rush hours and the night hours
\* 0-5, and 92, 88, 88, 88, 92, 96 at the night hours 0, 1, 2, 3, 4, 5.
C21_ExampleOutsideRushAndNight ==
    ExampleCall =>
        LET f  == outcome.value[1]
            hr == getHours(now + 1)
        IN  /\ f.confidence_score = R(88, 100)
            /\ f.prediction_horizon_hours = 1
            /\ hr \notin NightHours => f.predicted_aqi = Num(100)
            /\ hr \in {1, 2, 3} => f.predicted_aqi = Num(88)
            /\ hr \in {0, 4} => f.predicted_aqi = Num(92)
            /\ hr = 5 => f.predicted_aqi = Num(96)

C21_Witness ==
    /\ ExampleCall
    /\ getHours(now + 1) = 12
    /\ outcome.value[1].predicted_aqi = Num(100)
    /\ outcome.value[1].predicted_pm25 = Num(40)
    /\ outcome.value[1].confidence_score = R(88, 100)

----------------------------------------------------------------------------
(* The weather-response component *)

WindFactorOf(ws) ==
    IF RLe(Num(7), ws) THEN R(1, 2) ELSE RSub(Num(1), RMul(RSub(ws, Num(2)), R(1, 10)))

WeatherMultiplierOf(x) ==
    RMul(RMul(RMul(WindFactorOf(x.wind_speed),
                   RAdd(Num(1), RMul(RSub(x.humidity, Num(60)), R(5, 1000)))),
              RAdd(Num(1), RMul(RSub(x.temperature, Num(25)), R(1, 100)))),
         RAdd(Num(1), RMul(RSub(Num(1013), x.pressure), R(1, 1000))))

\* the two logged calls returned and differ at most in the wind speed
SameButWind(a, b) ==
    /\ a.outcome.status = "returned" /\ b.outcome.status = "returned"
    /\ a.hist = b.hist /\ a.n = b.n /\ a.at = b.at
    /\ [a.weather EXCEPT !.wind_speed = Num(0)] = [b.weather EXCEPT !.wind_speed = Num(0)]

----------------------------------------------------------------------------
(* The season of a forecast *)

\* the month, 1..12, in which the hour count t falls (years of 365 days)
MonthOf(t) ==
    LET hourOfYear == t % (365 * 24)
    IN  CHOOSE m \in 1..12 :
            /\ At(m, 1, 0) <= hourOfYear
            /\ m < 12 => hourOfYear < At(m + 1, 1, 0)

\* C23: the season is a total function of the month 1..12 of now + horizon:
\* 12, 1, 2 winter; 3, 4, 5 summer; 6..9 monsoon; 10, 11 post_monsoon.
C23_SeasonOfTargetMonth ==
    \A f \in Forecasts :
        LET x == f.features_used
        IN  /\ x.month = MonthOf(now + f.prediction_horizon_hours)
            /\ x.month \in 1..12
            /\ x.season \in {"winter", "summer", "monsoon", "post_monsoon"}
            /\ x.season = "winter" <=> x.month \in {12, 1, 2}
            /\ x.season = "summer" <=> x.month \in {3, 4, 5}
            /\ x.season = "monsoon" <=> x.month \in {6, 7, 8, 9}
            /\ x.season = "post_monsoon" <=> x.month \in {10, 11}

\* one call whose two forecasts lie in September and October
C23_Witness ==
    /\ Settled /\ outcome.status = "returned" /\ Len(outcome.value) = 2
    /\ MonthOf(now) = 9
    /\ outcome.value[1].features_used.month = 9
    /\ outcome.value[1].features_used.season = "monsoon"
    /\ outcome.value[2].features_used.month = 10
    /\ outcome.value[2].features_used.season = "post_monsoon"

----------------------------------------------------------------------------
(* AI enhancement keeps forecasts valid *)

NumberOrAbsent(v) == v.type \in {"number", "null"}

\* every element of the list is an object whose deltas are numbers or absent
AdditiveAdjustments(adjustments) ==
    \A j \in 1..Len(adjustments) :
        /\ adjustments[j].kind = "object"
        /\ NumberOrAbsent(adjustments[j].aqi_adjustment)
        /\ NumberOrAbsent(adjustments[j].pm25_adjustment)
        /\ NumberOrAbsent(adjustments[j].confidence_adjustment)

ValidForecast(f) ==
    /\ InRange(Num(0), f.predicted_aqi, Num(500))
    /\ RLe(Num(0), f.predicted_pm25)
    /\ InRange(R(1, 10), f.confidence_score, Num(1))

\* enhanceWithAI has returned for a response that carries additive adjustments
Enhanced ==
    /\ aiResponse # NoResponse
    /\ aiResponse.kind = "json"
    /\ AdditiveAdjustments(aiResponse.adjustments)

\* C24: for any list of additive adjustments the enhanced sequence has the
\* length and the horizons of the base sequence, every enhanced forecast has
\* predicted_aqi in [0, 500], predicted_pm25 >= 0 and confidence in
\* [0.1, 1.0], and a forecast whose hour has no adjustment is unmodified.
C24_EnhancementKeepsValid ==
    Enhanced =>
        /\ Len(aiEnhancedPredictions) = Len(basePredictions)
        /\ \A i \in 1..Len(basePredictions) :
              LET b == basePredictions[i]
                  f == aiEnhancedPredictions[i]
              IN  /\ ValidForecast(b)
                  /\ f.prediction_horizon_hours = b.prediction_horizon_hours
                  /\ f.prediction_horizon_hours = i
                  /\ ValidForecast(f)
                  /\ (\A j \in 1..Len(aiResponse.adjustments) :
                         aiResponse.adjustments[j].hour # i) => f = b
        /\ apc = "idle" => advOutcome.value = aiEnhancedPredictions

C24_Witness ==
    /\ Enhanced
    /\ apc = "idle" /\ advOutcome.status = "returned"
    /\ Len(basePredictions) = 3
    /\ Len(aiResponse.adjustments) = 2
    /\ advOutcome.value[1].predicted_aqi = Num(500)
    /\ advOutcome.value[1].predicted_pm25 = basePredictions[1].predicted_pm25
    /\ advOutcome.value[1].confidence_score = Num(1)
    /\ advOutcome.value[2].predicted_aqi = Num(0)
    /\ advOutcome.value[2].predicted_pm25 = Num(0)
    /\ advOutcome.value[2].confidence_score = R(1, 10)
    /\ advOutcome.value[3] = basePredictions[3]

----------------------------------------------------------------------------
(* Properties of POST /api/predictions/batch *)

\* the entries of the list that name the area
EntriesOf(list, name) == {k \in 1..Len(list) : list[k].area = name}

\* C25: a batch run classifies every area exactly once, as a success or as a
\* failure: the areas before the current one are classified whatever happened
\* to them, and when the run completes results.length + errors.length is the
\* number of areas.
C25_EveryAreaExactlyOnce ==
    /\ batch.pc \in {"loop", "delete", "insert"} =>
          /\ Len(batch.results) + Len(batch.errors) = batch.index - 1
          /\ \A i \in 1..(batch.index - 1) :
                Cardinality(EntriesOf(batch.results, batch.areas[i].name))
                   + Cardinality(EntriesOf(batch.errors, batch.areas[i].name)) = 1
          /\ \A i \in batch.index..Len(batch.areas) :
                /\ EntriesOf(batch.results, batch.areas[i].name) = {}
                /\ EntriesOf(batch.errors, batch.areas[i].name) = {}
    /\ (batch.pc = "done" /\ batch.status = 200) =>
          /\ Len(batch.results) + Len(batch.errors) = Len(batch.areas)
          /\ \A i \in 1..Len(batch.areas) :
                Cardinality(EntriesOf(batch.results, batch.areas[i].name))
                   + Cardinality(EntriesOf(batch.errors, batch.areas[i].name)) = 1
    /\ (batch.pc = "done" /\ batch.status # 200) => batch.areas = << >>

\* the first area has too few readings, the predictor throws for the second
\* and the third is stored
C25_Witness ==
    /\ batch.pc = "done" /\ batch.status = 200
    /\ Len(batch.areas) = 3
    /\ Len(batch.errors) = 2 /\ Len(batch.results) = 1
    /\ batch.errors[1] = [area |-> "Jayanagar", message |-> "Insufficient historical data"]
    /\ batch.errors[2] = [area |-> "Nowhere", message |-> "TypeError"]
    /\ batch.results[1].area = "Hebbal"
    /\ batch.results[1].predictions_generated = 2
    /\ \E k \in 1..Len(table) : table[k].area_id = "Hebbal"

\* the one-step outcome is the outcome of the process of generatePredictions
OutcomeOfProcess ==
    Settled =>
        outcome = generatePredictionsOutcome(historicalData, weatherData, areaInfo,
                                             hoursAhead)

----------------------------------------------------------------------------
(* Properties of the predictions store *)

\* the rows of the area for the coming hour t
FutureRows(name, t) ==
    {k \in 1..Len(table) : table[k].area_id = name /\ table[k].predicted_for = t}

AtMostOnePerHour ==
    \A k \in 1..Len(table) :
        table[k].predicted_for >= now
           => Cardinality(FutureRows(table[k].area_id, table[k].predicted_for)) <= 1

\* the request for one area and the batch run have both answered
BothCompleted == answer # NoAnswer /\ rpc = "idle" /\ batch.pc = "done"

\* C26: once a request for one area and a batch run that overlap in time have
\* both completed, the store holds at most one future prediction per target
\* hour and area.
C26_NoOverlappingForecastSets ==
    BothCompleted => AtMostOnePerHour

\* a request that runs alone leaves at most one row per target hour
SingleRequestReplaces ==
    (answer # NoAnswer /\ rpc = "idle" /\ batch.pc = "idle") => AtMostOnePerHour

\* a batch run that runs alone leaves at most one row per target hour
BatchAloneReplaces ==
    (batch.pc = "done" /\ rpc = "idle" /\ answer = NoAnswer) => AtMostOnePerHour

\* C27: when the handler of the generate route answers 400, 404 or 500, the
\* future predictions stored for the area before the request are unchanged:
\* in a request that found the one row StaleRow stored, that row is the table.
C27_ErrorKeepsStored ==
    answer.status \in {400, 404, 500} => table = <<StaleRow>>

\* an answer 400 or 404 leaves the store alone
ClientErrorKeepsStored ==
    answer.status \in {400, 404} => table = <<StaleRow>>

\* an answer 200 has replaced the stored rows of the area
SuccessReplacesStored ==
    (answer.status = 200 /\ areaInfo.name = StaleRow.area_id) =>
        /\ \A k \in 1..Len(table) : table[k] # StaleRow
        /\ Len(table) = answer.predictions_generated

----------------------------------------------------------------------------
(* The range of the confidence *)

\* the confidence of the forecast before the clamp and the rounding
ConfidenceProduct(f) ==
    LET h       == f.prediction_horizon_hours
        horizon == IF h < 34 THEN R(48 - h, 48) ELSE R(3, 10)
        wind    == IF ExtremeWind(f) THEN R(8, 10) ELSE Num(1)
        humid   == IF ExtremeHumidity(f) THEN R(9, 10) ELSE Num(1)
        seas    == CASE f.features_used.season = "winter" -> R(85, 100)
                     [] f.features_used.season = "summer" -> R(8, 10)
                     [] f.features_used.season = "monsoon" -> R(6, 10)
                     [] OTHER -> R(9, 10)
    IN  RMul(RMul(RMul(horizon, wind), humid), seas)

Distance(x, y) == IF RLt(x, y) THEN RSub(y, x) ELSE RSub(x, y)

\* C28: for every horizon >= 1, weather and season the unrounded confidence
\* lies in [0.1296, 0.88125], the returned confidence_score lies in
\* [0.13, 0.88], and the score is the unrounded value rounded to two decimals:
\* the clamp to [0.1, 1.0] changes nothing.
C28_ConfidenceRange ==
    \A f \in Forecasts :
        /\ InRange(R(1296, 10000), ConfidenceProduct(f), R(88125, 100000))
        /\ InRange(R(13, 100), f.confidence_score, R(88, 100))
        /\ RLe(Distance(f.confidence_score, ConfidenceProduct(f)), R(5, 1000))
        /\ RMul(f.confidence_score, Num(100))[2] = 1

\* the smallest confidence: hour 34 of a call in the monsoon, in a storm
C28_Witness ==
    /\ Len(predictions) >= 34
    /\ predictions[34].features_used.season = "monsoon"
    /\ ConfidenceProduct(predictions[34]) = R(1296, 10000)
    /\ predictions[34].confidence_score = R(13, 100)
    /\ RLt(predictions[34].confidence_score, predictions[1].confidence_score)

----------------------------------------------------------------------------
(* Properties of AutoRetrainingPipeline *)

\* a job whose executeRetrainingJob has not returned yet
Executing(job) == job.at # "done"

\* C29: at every moment at most one retraining job is queued or running, and
\* while a job is queued or running no step creates a job and a call of
\* triggerRetraining returns the empty id
C29_AtMostOneActiveJob ==
    /\ [](Cardinality(ActiveJobs(retrainingJobs)) <= 1)
    /\ [][ActiveJobs(retrainingJobs) # {} =>
             /\ Len(retrainingJobs') = Len(retrainingJobs)
             /\ jobId' \in {jobId, 0}]_vars

\* a second job runs while the cancelled first one is still executing, and
\* the last call of triggerRetraining was turned down
C29_Witness ==
    /\ Len(retrainingJobs) = 2
    /\ retrainingJobs[1].status = "cancelled"
    /\ Executing(retrainingJobs[1])
    /\ retrainingJobs[2].status = "running"
    /\ isRetrainingEnabled
    /\ jobId = 0

TerminalStatuses == {"completed", "failed", "cancelled"}

\* C30: completed, failed and cancelled are terminal: no step changes the
\* status of a job in one of them, or marks it deployed
C30_TerminalStatuses ==
    [][\A k \in 1..Len(retrainingJobs) :
          retrainingJobs[k].status \in TerminalStatuses =>
             /\ retrainingJobs'[k].status = retrainingJobs[k].status
             /\ retrainingJobs'[k].deploymentStatus = retrainingJobs[k].deploymentStatus]_vars

\* completed and failed are terminal, and a job that was not cancelled follows
\* running -> completed | failed
UncancelledJobsFollowTheOrder ==
    [][\A k \in 1..Len(retrainingJobs) :
          /\ retrainingJobs[k].status \in {"completed", "failed"} =>
                retrainingJobs'[k].status = retrainingJobs[k].status
          /\ retrainingJobs[k].status = "running" =>
                retrainingJobs'[k].status \in
                   {"running", "completed", "failed", "cancelled"}
          /\ retrainingJobs[k].status # "queued"]_vars
====
